---------------------------- MODULE Spec2Model ----------------------------
(***************************************************************************)
(* A model of tuindow's core: Rect, Padding/Style, Line, Panel, Cursor    *)
(* (src/tuindow/structs.py, buffers.py, cursor.py, validation.py) and the *)
(* damage tracker that api.py drives through Window.draw / Window.resize. *)
(*                                                                         *)
(* Python strings are sequences of one-character strings: "ab" is         *)
(* <<"a", "b">> and "" is <<>>.                                            *)
(***************************************************************************)
EXTENDS Integers, Sequences, FiniteSets, TLC

VARIABLES
    line,        \* a standalone buffers.Line (SpecLine)
    pRect,       \* Panel._rect, a Rect handle
    pLines,      \* Panel._lines, a list of Lines
    pAvailable,  \* Panel.available
    pStyle,      \* Panel._style, the default style of new rows
    cIndex,      \* Panel.cursor._index
    cLine,       \* Panel.cursor._line
    cMaxline,    \* Panel.cursor._maxline
    wBounds,     \* the damage tracker's bounds
    wValid,      \* the damage tracker's valid rects, compared by identity
    hRects,      \* Rect objects the host holds besides the panel's
    wDrawn,      \* history: the handles drawn earlier, with no resize and no
                 \* draw of a different overlapping rect since
    instance,    \* api._instance: None or the backend Instance
    inBlock,     \* a `with tuindow.init(...)` block is being executed
    screen,      \* the terminal's size <<width, height>> (window.Window)
    uPanels,     \* window.Window._user_panels, the rect values of the panels
    dPanel,      \* window.Window._default_panel: <<>> for None, or <<its rect value>>
    pooling,     \* validation._pooling
    shown,       \* the terminal: at each position <<x, y>> written to, the text
                 \* the last write_text placed there
    active,      \* api._active_cursor is the panel's cursor
    stdscr,      \* the input curses holds for getch(), oldest first
    cachedKeys,  \* Instance._cached_keys
    gen,         \* where the consumer's generator, made by Instance.keys, stands
    yielded,     \* history: the keys the generator has yielded, in order
    typed,        \* history: the keys the terminal has produced, numbered 1, 2, ...
    sent,        \* history: the resize events the terminal has produced
    called,      \* history: the calls of Instance._resize_callback
    outcome      \* what the last call did: [op, arg, err, ret, evicted]

vars == <<line, pRect, pLines, pAvailable, pStyle, cIndex, cLine, cMaxline,
          wBounds, wValid, hRects, wDrawn, instance, inBlock, screen, uPanels,
          dPanel, pooling, shown, active, stdscr, cachedKeys, gen, yielded, typed,
          sent, called, outcome>>

lineVars == <<line>>
panelVars == <<pRect, pLines, pAvailable, pStyle, cIndex, cLine, cMaxline>>
windowVars == <<wBounds, wValid, hRects, wDrawn>>
apiVars == <<instance, inBlock>>
curseVars == <<screen, uPanels, dPanel, pooling>>
termVars == <<shown, active>>
keyVars == <<stdscr, cachedKeys, gen, yielded, typed, sent, called>>
hostVars == <<apiVars, curseVars, termVars, keyVars>>

-----------------------------------------------------------------------------
(* Bounds of the model.                                                    *)

MaxLineLen == 3     \* Line lengths 0 .. MaxLineLen are assigned
MaxPad == 1         \* padding values -MaxPad .. MaxPad
MaxHeight == 2      \* panel heights up to MaxHeight
MaxWidth == 2       \* panel widths up to MaxWidth
MaxData == 1        \* longest row data, and largest index, a cursor insert may reach
MaxDrift == 0       \* how far Panel.available may run below 0 / above the rows
MaxHandles == 3     \* live Rect objects
MaxHeld == 1        \* Rect objects the host holds besides the panel's
MaxScreen == 2      \* screen sizes 1 .. MaxScreen
MaxRow == 2         \* longest row data of the cursor-only specification
MaxPos == 1         \* left / top of a drawn rect 0 .. MaxPos

-----------------------------------------------------------------------------
(* Python values.                                                          *)

None == "None"

Max(a, b) == IF a >= b THEN a ELSE b
Min(a, b) == IF a <= b THEN a ELSE b
Abs(a) == IF a < 0 THEN -a ELSE a

\* str * int: s repeated n times, "" for n <= 0
RECURSIVE Repeat(_, _)
Repeat(s, n) == IF n <= 0 THEN <<>> ELSE s \o Repeat(s, n - 1)

\* one bound of a slice, as Python normalises it against a length
SliceBound(i, len) == IF i < 0 THEN Max(0, len + i) ELSE Min(i, len)

\* s[a:b]
Slice(s, a, b) ==
    LET lo == SliceBound(a, Len(s))
        hi == SliceBound(b, Len(s))
    IN  IF lo >= hi THEN <<>> ELSE SubSeq(s, lo + 1, hi)

\* s[a:]
SliceFrom(s, a) == Slice(s, a, Len(s))

\* s[:b]
SliceTo(s, b) == Slice(s, 0, b)

\* s[i] is an IndexError unless -len <= i < len
IndexOk(s, i) == -Len(s) <= i /\ i < Len(s)

\* the 1-based position Python's s[i] names
Pos(s, i) == IF i < 0 THEN Len(s) + i + 1 ELSE i + 1

\* round(n / d) for d > 0: Python rounds halves to the even neighbour
Round(n, d) ==
    LET q == n \div d
        r == n - q * d
    IN  IF 2 * r < d THEN q
        ELSE IF 2 * r > d THEN q + 1
        ELSE IF q % 2 = 0 THEN q ELSE q + 1


-----------------------------------------------------------------------------
(* structs.Rect.  A Rect is an immutable object; id is its identity.      *)

Rect(id, left, top, width, height) ==
    [id |-> id, left |-> left, top |-> top, width |-> width, height |-> height]

Right(r) == r.left + r.width
Bottom(r) == r.top + r.height

\* an intersection test that looks at the columns only
IntersectsColumns(self, other) ==
    /\ self.left < Right(other)
    /\ Right(self) > other.left

\* an intersection test that takes rects sharing an edge to intersect
IntersectsTouching(self, other) ==
    /\ self.left <= Right(other)
    /\ self.top <= Bottom(other)
    /\ Right(self) >= other.left
    /\ Bottom(self) >= other.top

\* an intersection test that forgets the right edge of the rect asked
IntersectsOneSided(self, other) ==
    /\ self.left < Right(other)
    /\ self.top < Bottom(other)
    /\ Bottom(self) > other.top

Intersects(self, other) ==
    /\ self.left < Right(other)
    /\ self.top < Bottom(other)
    /\ Right(self) > other.left
    /\ Bottom(self) > other.top

\* a containment test that looks at the left and top edges only
ContainsCorner(self, other) ==
    /\ other.left >= self.left
    /\ other.top >= self.top

Contains(self, other) ==
    /\ other.left >= self.left
    /\ other.top >= self.top
    /\ Right(other) <= Right(self)
    /\ Bottom(other) <= Bottom(self)

\* two references name the same object
Is(r1, r2) == r1.id = r2.id

\* the field values of a Rect, without its identity
RectValue(r) == <<r.left, r.top, r.width, r.height>>

-----------------------------------------------------------------------------
(* structs.Padding and structs.Style.                                      *)

PaddingCalculate(fills, values) ==
    [fills |-> fills,
     values |-> values,
     pads |-> <<IF values[1] >= 0 THEN Repeat(fills[1], values[1]) ELSE <<>>,
                IF values[2] >= 0 THEN Repeat(fills[2], values[2]) ELSE <<>> >>]

\* Style.from_keywords; padding_fills is None or a pair, padding a pair
\* (a scalar argument is the pair of it with itself)
StyleFromKeywords(fill, padding_fills, padding, attributes) ==
    [padding |-> PaddingCalculate(
                    IF padding_fills = None THEN <<fill, fill>> ELSE padding_fills,
                    padding),
     fill |-> fill,
     attributes |-> attributes]

\* Style(): the class defaults
DefaultStyle ==
    [padding |-> PaddingCalculate(<<<<" ">>, <<" ">>>>, <<0, 0>>),
     fill |-> <<" ">>,
     attributes |-> 0]

\* a fix that always changes the larger rounded share, the left one on a tie
FixOffLarger(left_extra, right_extra, remaining) ==
    IF left_extra >= right_extra
    THEN <<left_extra + (remaining - (left_extra + right_extra)), right_extra>>
    ELSE <<left_extra, right_extra + (remaining - (left_extra + right_extra))>>

\* the fix of the off-by-one that rounding left_extra and right_extra leaves
FixOff(left_extra, right_extra, remaining) ==
    LET off == remaining - (left_extra + right_extra)
    IN  IF off = 1
        THEN IF left_extra >= right_extra THEN <<left_extra + off, right_extra>>
                                          ELSE <<left_extra, right_extra + off>>
        ELSE IF off = -1
        THEN IF left_extra >= right_extra THEN <<left_extra, right_extra + off>>
                                          ELSE <<left_extra + off, right_extra>>
        ELSE <<left_extra, right_extra>>

\* the two rounded shares, with no correction
VariableExtrasRounded(values, remaining) ==
    <<Round(Abs(values[1]) * remaining, Abs(values[1] + values[2])),
      Round(Abs(values[2]) * remaining, Abs(values[1] + values[2]))>>

\* the two extra pad lengths when both pads are variable
VariableExtras(values, remaining) ==
    FixOff(Round(Abs(values[1]) * remaining, Abs(values[1] + values[2])),
           Round(Abs(values[2]) * remaining, Abs(values[1] + values[2])),
           remaining)

\* the assertion `off in (-1, 0, 1)` of calculate_pads
VariableOffOk(values, remaining) ==
    remaining - (Round(Abs(values[1]) * remaining, Abs(values[1] + values[2]))
                 + Round(Abs(values[2]) * remaining, Abs(values[1] + values[2])))
        \in {-1, 0, 1}

\* a calculate_pads that leaves every leftover to the caller's plain fill
ExtendPadsNever(padding, remaining) == padding.pads

\* calculate_pads once `remaining` is known
ExtendPads(padding, remaining) ==
    IF remaining = 0 THEN padding.pads
    ELSE IF padding.values[1] >= 0
    THEN IF padding.values[2] < 0
         THEN <<padding.pads[1],
                Repeat(padding.fills[2], remaining) \o padding.pads[2]>>
         ELSE padding.pads
    ELSE IF padding.values[2] >= 0
    THEN <<padding.pads[1] \o Repeat(padding.fills[1], remaining), padding.pads[2]>>
    ELSE <<padding.pads[1]
               \o Repeat(padding.fills[1], VariableExtras(padding.values, remaining)[1]),
           padding.pads[2]
               \o Repeat(padding.fills[2], VariableExtras(padding.values, remaining)[2])>>

CalculatePads(style, string, max_length) ==
    ExtendPads(style.padding,
               max_length - (Len(style.padding.pads[1]) + Len(style.padding.pads[2]))
                   - Len(string))

-----------------------------------------------------------------------------
(* validation.py: each check yields the set of errors it reports; a pool   *)
(* raises one ValueError naming all of them when the set is not empty.    *)

NotNegative(desc, value) == IF value < 0 THEN {desc} ELSE {}

GreaterThanX(desc, value, x) == IF ~(value > x) THEN {desc} ELSE {}

\* a check that lets fixed padding fill the line exactly
PaddingOverflowExact(padding, length) ==
    IF (IF padding.values[1] > 0 THEN padding.values[1] ELSE 0)
       + (IF padding.values[2] > 0 THEN padding.values[2] ELSE 0) > length
    THEN {"padding values"} ELSE {}

PaddingOverflow(padding, length) ==
    IF (IF padding.values[1] > 0 THEN padding.values[1] ELSE 0)
       + (IF padding.values[2] > 0 THEN padding.values[2] ELSE 0) >= length
    THEN {"padding values"} ELSE {}

PaddingFills(padding) ==
    IF \E i \in 1..2 : Len(padding.fills[i]) # 1
    THEN {"padding fill values"} ELSE {}

LengthOneString(desc, value) == IF Len(value) # 1 THEN {desc} ELSE {}

-----------------------------------------------------------------------------
(* buffers.Line.  A setter yields [ok, errs, ln]: ln is the line after    *)
(* the call, the line as it was when the setter raised.                   *)

\* a display update that clears the dirty flag instead of setting it
DisplayedClean(ln, pads, display_data) ==
    [ln EXCEPT !.display = pads[1] \o display_data \o pads[2], !.dirty = FALSE]

\* the line once its display is lpad + display_data + rpad
Displayed(ln, pads, display_data) ==
    [ln EXCEPT !.display = pads[1] \o display_data \o pads[2], !.dirty = TRUE]

\* display_data: the data clipped to display_length or filled up to it
DisplayData(ln, display_length) ==
    IF display_length - Len(ln.data) <= 0
    THEN SliceTo(ln.data, display_length)
    ELSE ln.data \o Repeat(ln.style.fill, display_length - Len(ln.data))

\* display_data of an update that fills short data but does not clip long data
DisplayDataUnclipped(ln, display_length) ==
    IF display_length - Len(ln.data) <= 0
    THEN ln.data
    ELSE ln.data \o Repeat(ln.style.fill, display_length - Len(ln.data))

\* _update_display once calculate_pads has returned (lpad, rpad)
DisplayWith(ln, pads) ==
    Displayed(ln, pads, DisplayData(ln, ln.length - Len(pads[1]) - Len(pads[2])))

DisplayWithUnclipped(ln, pads) ==
    Displayed(ln, pads, DisplayDataUnclipped(ln, ln.length - Len(pads[1]) - Len(pads[2])))

\* a display update that pads short data but does not clip long data
UpdateDisplayUnclipped(ln) ==
    DisplayWithUnclipped(ln, CalculatePads(ln.style, ln.data, ln.length))

\* Line._update_display
UpdateDisplay(ln) ==
    DisplayWith(ln, CalculatePads(ln.style, ln.data, ln.length))

\* the errors the style setter's pool collects
StyleErrors(ln, style) ==
    LengthOneString("fill style", style.fill)
    \cup PaddingOverflow(style.padding, ln.length)
    \cup PaddingFills(style.padding)

\* Line.style = style
LineSetStyle(ln, style) ==
    IF StyleErrors(ln, style) # {}
    THEN [ok |-> FALSE, errs |-> StyleErrors(ln, style), ln |-> ln]
    ELSE [ok |-> TRUE, errs |-> {},
          ln |-> UpdateDisplay([ln EXCEPT !.style = style])]

\* Line.data = value
LineSetData(ln, value) ==
    IF ln.data # value THEN UpdateDisplay([ln EXCEPT !.data = value]) ELSE ln

\* the errors the length setter's pool collects
LengthErrors(ln, value) ==
    GreaterThanX("Line length", value, 0)
    \cup PaddingOverflow(ln.style.padding, value)

\* Line.length = value
LineSetLength(ln, value) ==
    IF ln.length = value THEN [ok |-> TRUE, errs |-> {}, ln |-> ln]
    ELSE IF LengthErrors(ln, value) # {}
    THEN [ok |-> FALSE, errs |-> LengthErrors(ln, value), ln |-> ln]
    ELSE [ok |-> TRUE, errs |-> {},
          ln |-> UpdateDisplay([ln EXCEPT !.length = value])]

\* Line.padding_fills = value (a pair)
LineSetPaddingFills(ln, value) ==
    IF value # ln.style.padding.fills
    THEN LineSetStyle(ln, StyleFromKeywords(ln.style.fill, value,
                          ln.style.padding.values, ln.style.attributes))
    ELSE [ok |-> TRUE, errs |-> {}, ln |-> ln]

\* Line.padding = value (a pair)
LineSetPadding(ln, value) ==
    IF value # ln.style.padding.values
    THEN LineSetStyle(ln, StyleFromKeywords(ln.style.fill,
                          ln.style.padding.fills, value, ln.style.attributes))
    ELSE [ok |-> TRUE, errs |-> {}, ln |-> ln]

\* Line.fill = value
LineSetFill(ln, value) ==
    IF ln.style.fill # value
    THEN LineSetStyle(ln, StyleFromKeywords(value, ln.style.padding.fills,
                          ln.style.padding.values, ln.style.attributes))
    ELSE [ok |-> TRUE, errs |-> {}, ln |-> ln]

\* Line.attributes = value
LineSetAttributes(ln, value) ==
    IF ln.style.attributes # value
    THEN LineSetStyle(ln, StyleFromKeywords(ln.style.fill,
                          ln.style.padding.fills, ln.style.padding.values, value))
    ELSE [ok |-> TRUE, errs |-> {}, ln |-> ln]

\* the class attributes a Line starts from
ClassLine ==
    [length |-> 1, data |-> <<>>, style |-> DefaultStyle, display |-> <<>>,
     dirty |-> TRUE]

\* Line.__init__ after self.length = length gave sized: data, then style
InitAfterLength(sized, style, data) ==
    IF ~sized.ok THEN sized
    ELSE LineSetStyle(LineSetData(sized.ln, data), style)

\* Line(length, style=style, data=data): length, then data, then style
LineInit(length, style, data) ==
    InitAfterLength(LineSetLength(ClassLine, length), style, data)

-----------------------------------------------------------------------------
(* The host layer at rest: no init block has been entered (api.py:318,     *)
(* `_instance = None`), the curses Window has no panels (window.py:152,    *)
(* 157) and no validation block is open (validation.py:10).                *)

\* Instance(resize_callback) on a terminal that has produced no input: the
\* cache is an empty deque and no generator has been made
InitKeys ==
    /\ stdscr = <<>>
    /\ cachedKeys = <<>>
    /\ gen = "none"
    /\ yielded = <<>>
    /\ typed = 0
    /\ sent = 0
    /\ called = 0

InitHost ==
    /\ instance = None
    /\ inBlock = FALSE
    /\ screen = <<1, 1>>
    /\ uPanels = <<>>
    /\ dPanel = <<>>
    /\ pooling = FALSE
    /\ shown = <<>>
    /\ active = FALSE
    /\ InitKeys

-----------------------------------------------------------------------------
(* What a call did.  op names the call, err the exception it raised        *)
(* ("" when it returned), ret what it returned; arg is the Rect a Window    *)
(* call was given and evicted the Rects it removed from the valid ones.    *)

Outcome(op, err, ret) ==
    [op |-> op, arg |-> None, err |-> err, ret |-> ret, evicted |-> {}]

WindowOutcome(op, arg, err, ret, evicted) ==
    [op |-> op, arg |-> arg, err |-> err, ret |-> ret, evicted |-> evicted]

NoError == ""

-----------------------------------------------------------------------------
(* buffers.Panel and the cursor.Cursor it owns.                            *)

\* the number of rows whose data is the empty string
EmptyCount(lines) == Cardinality({i \in 1..Len(lines) : lines[i].data = <<>>})

\* lines with every row of positions lo .. hi flagged dirty
MarkDirty(lines, lo, hi) ==
    [i \in 1..Len(lines) |->
        IF lo <= i /\ i <= hi THEN [lines[i] EXCEPT !.dirty = TRUE] ELSE lines[i]]

\* Panel._default_line(data), for the width and default style given
DefaultLine(width, style, data) == LineInit(width, style, data)

\* n references to a line
Copies(ln, n) == [i \in 1..Max(n, 0) |-> ln]

\* the loop of the rect setter that sets each row's length, in order, up to
\* the first row that rejects it: [ok, lines]
RECURSIVE SetLengths(_, _, _)
SetLengths(lines, width, i) ==
    IF i > Len(lines) THEN [ok |-> TRUE, lines |-> lines]
    ELSE LET r == LineSetLength(lines[i], width)
         IN  IF r.ok THEN SetLengths([lines EXCEPT ![i] = r.ln], width, i + 1)
             ELSE [ok |-> FALSE, lines |-> lines]

\* the Rect ids of objects that something besides the panel refers to
HeldIds == {wValid[i].id : i \in 1..Len(wValid)} \cup {hRects[i].id : i \in 1..Len(hRects)}

\* the identity of a newly constructed Rect: one no reachable Rect has (the
\* Rect a panel held is unreachable once replaced, unless it is held elsewhere)
FreshIds == (1..MaxHandles) \ HeldIds
\* the identity of a Rect that is the panel's own Rect changed in place
StaleId ==
    IF pRect.id # 0 THEN pRect.id
    ELSE CHOOSE id \in FreshIds : \A other \in FreshIds : id <= other

FreshId == CHOOSE id \in FreshIds : \A other \in FreshIds : id <= other

\* an index setter that wraps negative values but does not clamp to the data
IndexForUnclamped(value, data) ==
    IF value < 0 THEN Len(data) + 1 + value ELSE value

\* Cursor.index = value, on a row holding data
IndexFor(value, data) ==
    IF value = 0 THEN 0
    ELSE IF value < 0 THEN Max(0, Len(data) + 1 + value)
    ELSE Min(value, Len(data))

\* a line setter that sends every negative value to the first line
LineForUnwrapped(value, maxline) ==
    IF value < 0 THEN 0 ELSE Min(value, maxline)

\* the value the line setter clamps to
LineFor(value, maxline) ==
    IF value < 0 THEN Max(0, maxline + 1 + value) ELSE Min(value, maxline)

\* a line setter that puts the index at 0 whenever the line changes
SetLineResets(value, maxline, lines, curLine, curIndex) ==
    [line |-> LineFor(value, maxline),
     index |-> IF LineFor(value, maxline) = curLine THEN curIndex ELSE 0,
     err |-> NoError]

\* Cursor.line = value, for a cursor at (curLine, curIndex) reading rows from
\* lines: [line, index, err].  The index is validated again when the line
\* changed, and reading a missing row raises IndexError after the line is set.
SetLine(value, maxline, lines, curLine, curIndex) ==
    LET v == LineFor(value, maxline)
    IN  IF v = curLine THEN [line |-> v, index |-> curIndex, err |-> NoError]
        ELSE IF curIndex = 0 THEN [line |-> v, index |-> 0, err |-> NoError]
        ELSE IF ~IndexOk(lines, v)
        THEN [line |-> v, index |-> curIndex, err |-> "IndexError"]
        ELSE [line |-> v, index |-> IndexFor(curIndex, lines[v + 1].data),
              err |-> NoError]

\* a validation that stops at the first violated constraint
RectErrorsFirst(left, top, width, height) ==
    IF left < 0 THEN {"Panel.left"}
    ELSE IF top < 0 THEN {"Panel.top"}
    ELSE IF ~(width > 0) THEN {"Panel.width"}
    ELSE IF ~(height > 0) THEN {"Panel.height"}
    ELSE {}

\* the errors the rect setter's pool collects
RectErrors(left, top, width, height) ==
    NotNegative("Panel.left", left)
    \cup NotNegative("Panel.top", top)
    \cup GreaterThanX("Panel.width", width, 0)
    \cup GreaterThanX("Panel.height", height, 0)

\* a resize that builds every row anew
SizedAnew(lines, ln, height) == Copies(ln, height)

\* the rows grown with references to ln, or truncated, to the height given
Sized(lines, ln, height) ==
    IF Len(lines) < height THEN lines \o Copies(ln, height - Len(lines))
    ELSE SliceTo(lines, height)

\* Panel.rect = (left, top, width, height)
PanelSetRect(left, top, width, height) ==
    /\ FreshIds # {}
    /\ UNCHANGED <<hostVars, line, pStyle, windowVars>>
    /\ \E errs \in {RectErrors(left, top, width, height)} :
       IF errs # {}
       THEN /\ outcome' = Outcome("Panel.rect", "ValueError", errs)
            /\ UNCHANGED <<pRect, pLines, pAvailable, cIndex, cLine, cMaxline>>
       ELSE \E fresh \in {DefaultLine(width, pStyle, <<>>)} :
            /\ pRect' = Rect(FreshId, left, top, width, height)
            /\ IF Len(pLines) < height /\ ~fresh.ok
               THEN /\ outcome' = Outcome("Panel.rect", "ValueError", fresh.errs)
                    /\ UNCHANGED <<pLines, pAvailable, cIndex, cLine, cMaxline>>
               ELSE \E set \in {SetLengths(Sized(pLines, fresh.ln, height), width, 1)} :
                    /\ pLines' = set.lines
                    /\ IF ~set.ok
                       THEN /\ outcome' = Outcome("Panel.rect", "ValueError",
                                                  {"padding values"})
                            /\ UNCHANGED <<pAvailable, cIndex, cLine, cMaxline>>
                       ELSE \E moved \in {SetLine(Min(cLine, height - 1), height - 1,
                                                  set.lines, cLine, cIndex)} :
                            /\ cMaxline' = height - 1
                            /\ cLine' = moved.line
                            /\ cIndex' = moved.index
                            /\ pAvailable' = EmptyCount(set.lines)
                            /\ outcome' = Outcome("Panel.rect", NoError, None)

\* Panel.writeln(index, value) on a row that exists: [lines, available]
Writeln(lines, available, index, value) ==
    LET i == Pos(lines, index)
        ln == lines[i]
    IN  [lines |-> [lines EXCEPT ![i] = LineSetData(ln, value)],
         available |-> IF ln.data # <<>> /\ value = <<>> THEN available + 1
                       ELSE IF ln.data = <<>> /\ value # <<>> THEN available - 1
                       ELSE available]

\* Panel.available stays within the range the model follows it through
AvailableInRange(a) == -1 - MaxDrift <= a /\ a <= MaxHeight + MaxDrift

PanelWriteln(index, value) ==
    /\ UNCHANGED <<hostVars, line, pRect, pStyle, cIndex, cLine, cMaxline, windowVars>>
    /\ IF ~IndexOk(pLines, index)
       THEN /\ outcome' = Outcome("writeln", "IndexError", None)
            /\ UNCHANGED <<pLines, pAvailable>>
       ELSE \E w \in {Writeln(pLines, pAvailable, index, value)} :
            /\ AvailableInRange(w.available)
            /\ pLines' = w.lines
            /\ pAvailable' = w.available
            /\ outcome' = Outcome("writeln", NoError, None)

PanelClearln(index) ==
    /\ UNCHANGED <<hostVars, line, pRect, pStyle, cIndex, cLine, cMaxline, windowVars>>
    /\ IF ~IndexOk(pLines, index)
       THEN /\ outcome' = Outcome("clearln", "IndexError", None)
            /\ UNCHANGED <<pLines, pAvailable>>
       ELSE \E w \in {Writeln(pLines, pAvailable, index, <<>>)} :
            /\ AvailableInRange(w.available)
            /\ pLines' = w.lines
            /\ pAvailable' = w.available
            /\ outcome' = Outcome("clearln", NoError, None)

\* the list after insertln(index, value) with the new row ln
\* an insertln that writes over the row at index and moves nothing
InsertlnOver(lines, index, ln) ==
    LET at == SliceBound(index, Len(lines))
    IN  MarkDirty([lines EXCEPT ![at + 1] = ln], at + 1, Len(lines))

Insertln(lines, index, ln) ==
    LET at == SliceBound(index, Len(lines))
        inserted == SliceTo(lines, at) \o <<ln>> \o SliceFrom(lines, at)
        clipped == SubSeq(inserted, 1, Len(inserted) - 1)
    IN  MarkDirty(clipped, SliceBound(index, Len(clipped)) + 1, Len(clipped))

PanelInsertln(index, value) ==
    /\ UNCHANGED <<hostVars, line, pRect, pStyle, pAvailable, cIndex, cLine, cMaxline, windowVars>>
    /\ \E fresh \in {DefaultLine(pRect.width, pStyle, value)} :
       IF ~fresh.ok
       THEN /\ outcome' = Outcome("insertln", "ValueError", fresh.errs)
            /\ UNCHANGED pLines
       ELSE /\ pLines' = Insertln(pLines, index, fresh.ln)
            /\ outcome' = Outcome("insertln", NoError, None)

\* the list with the row at index deleted
Without(lines, index) ==
    LET i == Pos(lines, index)
    IN  SubSeq(lines, 1, i - 1) \o SubSeq(lines, i + 1, Len(lines))

\* a deleteln that does not flag the rows it moved
DeletelnUnmarked(lines, index, ln) == Without(lines, index) \o <<ln>>

\* the list after deleteln(index) with the new last row ln
Deleteln(lines, index, ln) ==
    LET appended == Without(lines, index) \o <<ln>>
    IN  MarkDirty(appended, SliceBound(index, Len(appended)) + 1, Len(appended))

PanelDeleteln(index) ==
    /\ UNCHANGED <<hostVars, line, pRect, pStyle, pAvailable, cIndex, cLine, cMaxline, windowVars>>
    /\ IF ~IndexOk(pLines, index)
       THEN /\ outcome' = Outcome("deleteln", "IndexError", None)
            /\ UNCHANGED pLines
       ELSE \E fresh \in {DefaultLine(pRect.width, pStyle, <<>>)} :
            IF ~fresh.ok
            THEN /\ pLines' = Without(pLines, index)
                 /\ outcome' = Outcome("deleteln", "ValueError", fresh.errs)
            ELSE /\ pLines' = Deleteln(pLines, index, fresh.ln)
                 /\ outcome' = Outcome("deleteln", NoError, None)

\* the loop of set_default_style that assigns the style to each row, in
\* order, up to the first row that rejects it: [ok, lines]
RECURSIVE SetStyles(_, _, _)
SetStyles(lines, style, i) ==
    IF i > Len(lines) THEN [ok |-> TRUE, lines |-> lines]
    ELSE IF LineSetStyle(lines[i], style).ok
    THEN SetStyles([lines EXCEPT ![i] = LineSetStyle(lines[i], style).ln], style, i + 1)
    ELSE [ok |-> FALSE, lines |-> lines]

\* Panel.set_default_style(style)
PanelSetDefaultStyle(style) ==
    /\ UNCHANGED <<hostVars, line, pRect, pAvailable, cIndex, cLine, cMaxline, windowVars>>
    /\ pStyle' = style
    /\ \E r \in {SetStyles(pLines, style, 1)} :
          /\ pLines' = r.lines
          /\ outcome' = Outcome("set_default_style",
                                IF r.ok THEN NoError ELSE "ValueError", None)

\* a shift that moves the surviving rows without flagging them
ShiftDataUnmarked(lines, height, n, ln) ==
    LET reset == IF Abs(n) >= height THEN Copies(ln, height) ELSE lines
    IN  IF n < 0 THEN Slice(reset, Abs(n), Len(reset)) \o Copies(ln, Abs(n))
        ELSE IF n > 0 THEN Copies(ln, Abs(n)) \o Slice(reset, 0, height - n)
        ELSE reset

\* Panel._shift_data(n) for a panel of the height given whose default rows
\* are copies of ln
ShiftData(lines, height, n, ln) ==
    LET reset == IF Abs(n) >= height THEN Copies(ln, height) ELSE lines
        fresh_lines == Copies(ln, Abs(n))
    IN  IF n < 0
        THEN LET existing_slice == Slice(reset, Abs(n), Len(reset))
             IN  MarkDirty(existing_slice, 1, Len(existing_slice)) \o fresh_lines
        ELSE IF n > 0
        THEN LET existing_slice == Slice(reset, 0, height - n)
             IN  fresh_lines \o MarkDirty(existing_slice, 1, Len(existing_slice))
        ELSE reset

\* shift_up(n) is Shift("shift_up", n, -n), shift_down(n) Shift("shift_down", n, n)
Shift(op, n, by) ==
    /\ UNCHANGED <<hostVars, line, pRect, pStyle, pAvailable, cIndex, cLine, cMaxline, windowVars>>
    /\ IF GreaterThanX("n", n, 0) # {}
       THEN /\ outcome' = Outcome(op, "ValueError", GreaterThanX("n", n, 0))
            /\ UNCHANGED pLines
       ELSE \E fresh \in {DefaultLine(pRect.width, pStyle, <<>>)} :
            IF ~fresh.ok
            THEN /\ outcome' = Outcome(op, "ValueError", fresh.errs)
                 /\ UNCHANGED pLines
            ELSE /\ pLines' = ShiftData(pLines, pRect.height, by, fresh.ln)
                 /\ outcome' = Outcome(op, NoError, None)

PanelShiftUp(n) == Shift("shift_up", n, -n)

PanelShiftDown(n) == Shift("shift_down", n, n)

\* some row holds the empty string
HasEmpty(lines) == \E i \in 1..Len(lines) : lines[i].data = <<>>

\* Panel.first_available: a 0-based index, or None
FirstAvailable(lines) ==
    IF HasEmpty(lines)
    THEN (CHOOSE i \in 1..Len(lines) :
            /\ lines[i].data = <<>>
            /\ \A j \in 1..(i - 1) : lines[j].data # <<>>) - 1
    ELSE None

PanelWriteIfAvailable(value) ==
    /\ UNCHANGED <<hostVars, line, pRect, pStyle, cIndex, cLine, cMaxline, windowVars>>
    /\ IF pAvailable = 0
       THEN /\ outcome' = Outcome("write_if_available", NoError, None)
            /\ UNCHANGED <<pLines, pAvailable>>
       ELSE IF ~HasEmpty(pLines)
       THEN /\ outcome' = Outcome("write_if_available", "AssertionError", None)
            /\ UNCHANGED <<pLines, pAvailable>>
       ELSE \E w \in {Writeln(pLines, pAvailable, FirstAvailable(pLines), value)} :
            /\ AvailableInRange(w.available)
            /\ pLines' = w.lines
            /\ pAvailable' = w.available
            /\ outcome' = Outcome("write_if_available", NoError, None)

-----------------------------------------------------------------------------
(* cursor.Cursor, bound to the panel's readln / writeln.                   *)

\* Cursor._readline() raises IndexError when the panel has no such row
ReadOk == IndexOk(pLines, cLine)

\* the data of the row under the cursor
Current == pLines[cLine + 1].data

\* Cursor._writeline(value) and then _index = index
CursorWrite(op, value, index, ret) ==
    \E w \in {Writeln(pLines, pAvailable, cLine, value)} :
        /\ AvailableInRange(w.available)
        /\ pLines' = w.lines
        /\ pAvailable' = w.available
        /\ cIndex' = index
        /\ outcome' = Outcome(op, NoError, ret)

\* a cursor call that raised err before changing anything
CursorRaise(op, err) ==
    /\ outcome' = Outcome(op, err, None)
    /\ UNCHANGED <<pLines, pAvailable, cIndex>>

\* an insert that adds the value at the end of the row
CursorInsertAtEnd(value) ==
    /\ UNCHANGED <<hostVars, line, pRect, pStyle, cLine, cMaxline, windowVars>>
    /\ IF ~ReadOk THEN CursorRaise("insert", "IndexError")
       ELSE CursorWrite("insert", Current \o value, cIndex + Len(value), None)

CursorInsert(value) ==
    /\ UNCHANGED <<hostVars, line, pRect, pStyle, cLine, cMaxline, windowVars>>
    /\ IF ~ReadOk THEN CursorRaise("insert", "IndexError")
       ELSE CursorWrite("insert",
                        SliceTo(Current, cIndex) \o value \o SliceFrom(Current, cIndex),
                        cIndex + Len(value), None)

CursorBackspace(n) ==
    /\ UNCHANGED <<hostVars, line, pRect, pStyle, cLine, cMaxline, windowVars>>
    /\ IF cIndex = 0
       THEN /\ outcome' = Outcome("backspace", NoError, <<>>)
            /\ UNCHANGED <<pLines, pAvailable, cIndex>>
       ELSE IF ~ReadOk THEN CursorRaise("backspace", "IndexError")
       ELSE IF cIndex <= n \/ n < 0
       THEN CursorWrite("backspace", SliceFrom(Current, cIndex), 0,
                        SliceTo(Current, cIndex))
       ELSE CursorWrite("backspace",
                        SliceTo(Current, cIndex - n) \o SliceFrom(Current, cIndex),
                        cIndex - n, Slice(Current, cIndex - n, cIndex))

\* a delete() that always removes everything up to the end of the row
CursorDeleteToEnd(n) ==
    /\ UNCHANGED <<hostVars, line, pRect, pStyle, cLine, cMaxline, windowVars>>
    /\ IF ~ReadOk THEN CursorRaise("delete", "IndexError")
       ELSE IF cIndex >= Len(Current)
       THEN /\ outcome' = Outcome("delete", NoError, <<>>)
            /\ UNCHANGED <<pLines, pAvailable, cIndex>>
       ELSE CursorWrite("delete", SliceTo(Current, cIndex), cIndex,
                        SliceFrom(Current, cIndex))

CursorDelete(n) ==
    /\ UNCHANGED <<hostVars, line, pRect, pStyle, cLine, cMaxline, windowVars>>
    /\ IF ~ReadOk THEN CursorRaise("delete", "IndexError")
       ELSE IF cIndex >= Len(Current)
       THEN /\ outcome' = Outcome("delete", NoError, <<>>)
            /\ UNCHANGED <<pLines, pAvailable, cIndex>>
       ELSE IF n >= Len(Current) - cIndex \/ n < 0
       THEN CursorWrite("delete", SliceTo(Current, cIndex), cIndex,
                        SliceFrom(Current, cIndex))
       ELSE CursorWrite("delete",
                        SliceTo(Current, cIndex) \o SliceFrom(Current, cIndex + n),
                        cIndex, Slice(Current, cIndex, cIndex + n))

CursorLeft(n) ==
    /\ UNCHANGED <<hostVars, line, pRect, pStyle, pLines, pAvailable, cLine, cMaxline, windowVars>>
    /\ IF NotNegative("n", n) # {}
       THEN /\ outcome' = Outcome("left", "ValueError", None)
            /\ UNCHANGED cIndex
       ELSE /\ cIndex' = Max(0, cIndex - n)
            /\ outcome' = Outcome("left", NoError, None)

CursorRight(n) ==
    /\ UNCHANGED <<hostVars, line, pRect, pStyle, pLines, pAvailable, cLine, cMaxline, windowVars>>
    /\ IF NotNegative("n", n) # {}
       THEN /\ outcome' = Outcome("right", "ValueError", None)
            /\ UNCHANGED cIndex
       ELSE IF ~ReadOk
       THEN /\ outcome' = Outcome("right", "IndexError", None)
            /\ UNCHANGED cIndex
       ELSE /\ cIndex' = Min(Len(Current), cIndex + n)
            /\ outcome' = Outcome("right", NoError, None)

\* self.line = value inside up / down, which raise Overscroll(over) after it
\* when over > 0
CursorMove(op, value, over) ==
    \E moved \in {SetLine(value, cMaxline, pLines, cLine, cIndex)} :
        /\ cLine' = moved.line
        /\ cIndex' = moved.index
        /\ outcome' = IF moved.err # NoError THEN Outcome(op, moved.err, None)
                      ELSE IF over > 0 THEN Outcome(op, "Overscroll", over)
                      ELSE Outcome(op, NoError, None)

CursorUp(n) ==
    /\ UNCHANGED <<hostVars, line, pRect, pStyle, pLines, pAvailable, cMaxline, windowVars>>
    /\ IF NotNegative("n", n) # {}
       THEN /\ outcome' = Outcome("up", "ValueError", None)
            /\ UNCHANGED <<cIndex, cLine>>
       ELSE LET new_line_index == cLine - n
            IN  IF new_line_index < 0
                THEN CursorMove("up", 0, 0 - new_line_index)
                ELSE CursorMove("up", new_line_index, 0)

\* a down() that stops at the last line without raising
CursorDownSilent(n) ==
    /\ UNCHANGED <<hostVars, line, pRect, pStyle, pLines, pAvailable, cMaxline, windowVars>>
    /\ IF NotNegative("n", n) # {}
       THEN /\ outcome' = Outcome("down", "ValueError", None)
            /\ UNCHANGED <<cIndex, cLine>>
       ELSE CursorMove("down", Min(cLine + n, cMaxline), 0)

CursorDown(n) ==
    /\ UNCHANGED <<hostVars, line, pRect, pStyle, pLines, pAvailable, cMaxline, windowVars>>
    /\ IF NotNegative("n", n) # {}
       THEN /\ outcome' = Outcome("down", "ValueError", None)
            /\ UNCHANGED <<cIndex, cLine>>
       ELSE LET new_line_index == cLine + n
                over == new_line_index - cMaxline
            IN  IF over > 0
                THEN CursorMove("down", cMaxline, over)
                ELSE CursorMove("down", new_line_index, 0)

\* Cursor.index = value
CursorSetIndex(value) ==
    /\ UNCHANGED <<hostVars, line, pRect, pStyle, pLines, pAvailable, cLine, cMaxline, windowVars>>
    /\ IF value = 0
       THEN /\ cIndex' = 0
            /\ outcome' = Outcome("index", NoError, None)
       ELSE IF ~ReadOk
       THEN /\ outcome' = Outcome("index", "IndexError", None)
            /\ UNCHANGED cIndex
       ELSE /\ cIndex' = IndexFor(value, Current)
            /\ outcome' = Outcome("index", NoError, None)

\* Cursor.line = value
CursorSetLine(value) ==
    /\ UNCHANGED <<hostVars, line, pRect, pStyle, pLines, pAvailable, cMaxline, windowVars>>
    /\ CursorMove("line", value, 0)

-----------------------------------------------------------------------------
(* The damage tracker api.py drives: Window(0, 0, 1, 1), Window.resize and *)
(* Window.draw.  The class is not among the sources, so its steps follow   *)
(* its specification (section 4.6).                                        *)

Range(seq) == {seq[i] : i \in 1..Len(seq)}

\* rect is in the valid collection, by identity
InValid(valid, rect) == \E i \in 1..Len(valid) : Is(valid[i], rect)

\* a swap-remove that moves on without testing the rect it swapped in
RECURSIVE EvictSkipping(_, _, _)
EvictSkipping(valid, rect, i) ==
    IF i > Len(valid) THEN valid
    ELSE IF Intersects(valid[i], rect)
    THEN EvictSkipping(IF i = Len(valid) THEN SubSeq(valid, 1, i - 1)
                       ELSE [SubSeq(valid, 1, Len(valid) - 1) EXCEPT ![i] = valid[Len(valid)]],
                       rect, i + 1)
    ELSE EvictSkipping(valid, rect, i + 1)

\* swap-remove, from position i on, every valid rect that intersects rect
RECURSIVE Evict(_, _, _)
Evict(valid, rect, i) ==
    IF i > Len(valid) THEN valid
    ELSE IF Intersects(valid[i], rect)
    THEN Evict(IF i = Len(valid) THEN SubSeq(valid, 1, i - 1)
               ELSE [SubSeq(valid, 1, Len(valid) - 1) EXCEPT ![i] = valid[Len(valid)]],
               rect, i)
    ELSE Evict(valid, rect, i + 1)

\* the cells of the screen a rect covers
Cells(r) ==
    {<<x, y>> : x \in r.left..(r.left + r.width - 1),
                y \in r.top..(r.top + r.height - 1)}

\* two rects share a cell
Overlap(a, b) == Cells(a) \cap Cells(b) # {}

\* the history after a draw of rect: rect, and the handles drawn earlier that
\* rect does not overlap
Drawn(history, rect) ==
    {h \in history : h.id = rect.id \/ ~Overlap(h, rect)} \cup {rect}

\* Window.draw(rect)
WindowDraw(rect) ==
    /\ UNCHANGED <<hostVars, line, panelVars, wBounds, hRects>>
    /\ IF ~Contains(wBounds, rect)
       THEN /\ outcome' = WindowOutcome("draw", rect, "BoundsError", None, {})
            /\ UNCHANGED <<wValid, wDrawn>>
       ELSE IF InValid(wValid, rect)
       THEN /\ outcome' = WindowOutcome("draw", rect, NoError, FALSE, {})
            /\ wDrawn' = Drawn(wDrawn, rect)
            /\ UNCHANGED wValid
       ELSE LET kept == Evict(wValid, rect, 1)
            IN  /\ wValid' = Append(kept, rect)
                /\ wDrawn' = Drawn(wDrawn, rect)
                /\ outcome' = WindowOutcome("draw", rect, NoError, TRUE,
                                            Range(wValid) \ Range(kept))

\* a resize that replaces the bounds but keeps the valid rects
WindowResizeKeepsValid(width, height) ==
    /\ wBounds' = Rect(0, 0, 0, width, height)
    /\ wDrawn' = {}
    /\ outcome' = WindowOutcome("resize", wBounds', NoError, None, {})
    /\ UNCHANGED <<hostVars, line, panelVars, hRects, wValid>>

\* Window.resize(0, 0, width, height)
WindowResize(width, height) ==
    /\ wBounds' = Rect(0, 0, 0, width, height)
    /\ wValid' = <<>>
    /\ wDrawn' = {}
    /\ outcome' = WindowOutcome("resize", wBounds', NoError, None, Range(wValid))
    /\ UNCHANGED <<hostVars, line, panelVars, hRects>>

\* the identities a Rect the host constructs can take: the panel's Rect is
\* alive too
HostFreshIds == FreshIds \ {pRect.id}

\* the host constructs Rect(left, top, width, height) and keeps it
NewRect(left, top, width, height) ==
    /\ Len(hRects) < MaxHeld
    /\ HostFreshIds # {}
    /\ hRects' = Append(hRects,
                        Rect(CHOOSE id \in HostFreshIds :
                                 \A other \in HostFreshIds : id <= other,
                             left, top, width, height))
    /\ outcome' = Outcome("Rect", NoError, None)
    /\ UNCHANGED <<hostVars, line, panelVars, wBounds, wValid, wDrawn>>

\* the host lets go of the i-th Rect it keeps
DropRect(i) ==
    /\ i \in 1..Len(hRects)
    /\ hRects' = SubSeq(hRects, 1, i - 1) \o SubSeq(hRects, i + 1, Len(hRects))
    /\ outcome' = Outcome("del", NoError, None)
    /\ UNCHANGED <<hostVars, line, panelVars, wBounds, wValid, wDrawn>>

-----------------------------------------------------------------------------
(* Spec: one Panel and its Cursor under every row and cursor operation.   *)

\* the default styles a panel is constructed with
PanelStyles == {DefaultStyle, StyleFromKeywords(<<".">>, None, <<1, 0>>, 0)}

\* the values written to rows, and the strings a cursor inserts
RowValues == {<<>>, <<"a">>}
InsertValues == {<<"b">>}

RectLefts == {-1, 0}
RectWidths == 0..MaxWidth
RectHeights == 0..MaxHeight
RowIndexes == (-MaxHeight)..MaxHeight
ShiftAmounts == 0..MaxHeight
CursorAmounts == (-1)..MaxHeight

\* an insert of value keeps the row's data, and the cursor's index, within most
InsertFits(value, most) ==
    ReadOk => Len(Current) + Len(value) <= most /\ cIndex + Len(value) <= most

\* Panel(default_style=style): a panel whose rect is not yet assigned
InitPanel ==
    /\ pRect = Rect(0, -1, -1, -1, -1)
    /\ pLines = <<>>
    /\ pAvailable = -1
    /\ pStyle \in PanelStyles
    /\ cIndex = 0
    /\ cLine = 0
    /\ cMaxline = 0

Init ==
    /\ InitPanel
    /\ line = ClassLine
    /\ wBounds = Rect(0, 0, 0, 1, 1)
    /\ wValid = <<>>
    /\ hRects = <<>>
    /\ wDrawn = {}
    /\ InitHost
    /\ outcome = Outcome("Panel", NoError, None)

NextPanel ==
    \/ \E l \in RectLefts, t \in RectLefts, w \in RectWidths, h \in RectHeights :
          PanelSetRect(l, t, w, h)
    \/ \E i \in RowIndexes, v \in RowValues : PanelWriteln(i, v)
    \/ \E i \in RowIndexes : PanelClearln(i)
    \/ \E i \in RowIndexes, v \in RowValues : PanelInsertln(i, v)
    \/ \E i \in RowIndexes : PanelDeleteln(i)
    \/ \E n \in ShiftAmounts : PanelShiftUp(n)
    \/ \E n \in ShiftAmounts : PanelShiftDown(n)
    \/ \E v \in RowValues : PanelWriteIfAvailable(v)

NextCursor ==
    \/ \E v \in InsertValues : InsertFits(v, MaxData) /\ CursorInsert(v)
    \/ \E n \in CursorAmounts : CursorBackspace(n)
    \/ \E n \in CursorAmounts : CursorDelete(n)
    \/ \E n \in CursorAmounts : CursorLeft(n)
    \/ \E n \in CursorAmounts : CursorRight(n)
    \/ \E n \in CursorAmounts : CursorUp(n)
    \/ \E n \in CursorAmounts : CursorDown(n)
    \/ \E v \in CursorAmounts : CursorSetIndex(v)
    \/ \E v \in CursorAmounts : CursorSetLine(v)

Next == NextPanel \/ NextCursor

Spec == Init /\ [][Next]_vars

\* the panel's rect has been assigned (the rect of a panel built without one
\* is the class's own Rect(-1, -1, -1, -1))
RectAssigned == pRect.id # 0

\* a panel with an assigned rect and the default style: its padding is (0, 0),
\* so no rect assignment to it can fail after validation
PlainPanel == RectAssigned /\ pStyle = DefaultStyle

\* C1: after any sequence of Panel operations and edits through the panel's
\* cursor, Panel.available equals the number of rows whose data is the empty
\* string (stated for panels of the default style).
AvailableCountsEmptyRows == PlainPanel => pAvailable = EmptyCount(pLines)

\* C2: after any sequence of Panel operations on a panel whose rect has been
\* assigned, shifts by more than the height included, the panel holds exactly
\* rect.height rows and every row's length equals rect.width (stated for
\* panels of the default style).
RowsMatchRect ==
    PlainPanel =>
        /\ Len(pLines) = pRect.height
        /\ \A i \in 1..Len(pLines) : pLines[i].length = pRect.width

\* C3: after any interleaving of Panel row operations and Cursor operations,
\* 0 <= cursor.index <= len(data of the row at cursor.line) and
\* 0 <= cursor.line <= cursor.maxline (stated for panels of the default style
\* that hold a row under the cursor).
CursorInRange ==
    (PlainPanel /\ ReadOk /\ cLine >= 0) =>
        /\ cLine <= cMaxline
        /\ 0 <= cIndex /\ cIndex <= Len(Current)

-----------------------------------------------------------------------------
(* SpecCursor: a Cursor that starts in range, under its editing and       *)
(* movement calls alone.                                                   *)

\* the data the rows hold at the start: "", "a", "ac", ...
RowText == <<"a", "c", "a", "c">>
CursorRows == {SubSeq(RowText, 1, n) : n \in 0..Min(MaxRow, Len(RowText))}

\* Panel(0, 0, MaxWidth, h), rows written with writeln, and the cursor placed
\* on any row at any index of its data
InitCursor ==
    /\ \E h \in 1..MaxHeight :
          /\ pRect = Rect(1, 0, 0, MaxWidth, h)
          /\ pLines \in [1..h -> {DefaultLine(MaxWidth, DefaultStyle, d).ln : d \in CursorRows}]
          /\ cMaxline = h - 1
    /\ pStyle = DefaultStyle
    /\ pAvailable = EmptyCount(pLines)
    /\ cLine \in 0..cMaxline
    /\ cIndex \in 0..Len(Current)
    /\ line = ClassLine
    /\ wBounds = Rect(0, 0, 0, 1, 1)
    /\ wValid = <<>>
    /\ hRects = <<>>
    /\ wDrawn = {}
    /\ InitHost
    /\ outcome = Outcome("Panel", NoError, None)

NextCursorCalls ==
    \/ \E v \in InsertValues : InsertFits(v, MaxRow) /\ CursorInsert(v)
    \/ \E n \in CursorAmounts : CursorBackspace(n)
    \/ \E n \in CursorAmounts : CursorDelete(n)
    \/ \E n \in CursorAmounts : CursorLeft(n)
    \/ \E n \in CursorAmounts : CursorRight(n)
    \/ \E n \in CursorAmounts : CursorUp(n)
    \/ \E n \in CursorAmounts : CursorDown(n)

SpecCursor == InitCursor /\ [][NextCursorCalls]_vars

\* C4: starting from a Cursor whose index and line are in range, after every
\* step of any sequence of insert, backspace, delete, left, right, up and down
\* calls, those that raise Overscroll included, index is within
\* [0, len(current row data)] and line is within [0, maxline].
CursorStaysInRange ==
    /\ 0 <= cLine /\ cLine <= cMaxline
    /\ ReadOk
    /\ 0 <= cIndex /\ cIndex <= Len(Current)

\* down() past the last row raised Overscroll after moving from a longer row
\* onto a shorter one, and the index was clamped to the end of the new row
CursorStaysInRangeWitness ==
    /\ outcome.op = "down"
    /\ outcome.err = "Overscroll"
    /\ cLine = cMaxline
    /\ cLine > 0
    /\ Len(pLines[cLine].data) > Len(Current)
    /\ Len(Current) > 0
    /\ cIndex = Len(Current)

-----------------------------------------------------------------------------
(* SpecWindow: the damage tracker under draws of the panel's rect and of  *)
(* the rects the host keeps, resizes, and assignments to the panel's rect. *)

ScreenSides == 1..MaxScreen
RectPositions == 0..MaxPos

\* the handles a draw is given: the panel's display_rect and the host's rects
\* (the host keeps Rects of one cell; the panel's Rect takes every size)
DrawHandles == {pRect} \cup Range(hRects)

InitWindow == Init /\ pStyle = DefaultStyle

NextWindow ==
    \/ \E l \in RectLefts, w \in 1..MaxWidth, h \in 1..MaxHeight :
          PanelSetRect(l, 0, w, h)
    \/ \E l \in RectPositions, t \in RectPositions : NewRect(l, t, 1, 1)
    \/ \E i \in 1..MaxHeld : DropRect(i)
    \/ \E r \in DrawHandles : WindowDraw(r)
    \/ \E w \in ScreenSides, h \in ScreenSides : WindowResize(w, h)

SpecWindow == InitWindow /\ [][NextWindow]_vars

\* the identities in the valid collection
ValidIds(valid) == {valid[i].id : i \in 1..Len(valid)}

\* rect covers at least one cell and every cell it covers is within the bounds
InBounds(rect) == Cells(rect) # {} /\ Cells(rect) \subseteq Cells(wBounds)

\* rect reaches beyond the bounds
SticksOut(rect) ==
    \/ rect.left < 0
    \/ rect.top < 0
    \/ ~(Cells(rect) \subseteq Cells(wBounds))

\* a step of Window.draw: every call sets outcome, and a draw that leaves
\* every variable as it was repeats the draw before it
DrawStep == outcome'.op = "draw"

\* C6: Window.draw(r) returns false whenever the same handle r was passed to
\* an earlier draw and there was, since that draw, no resize and no draw of a
\* different rect that intersects r.
CleanRectStaysClean ==
    [][(DrawStep /\ outcome'.arg \in wDrawn) =>
          (outcome'.err = NoError /\ outcome'.ret = FALSE)]_vars

\* draw(r1); draw(r2); draw(r1): the last draw returned false although another
\* rect was drawn, and is valid, after r1
CleanRectStaysCleanWitness ==
    /\ outcome.op = "draw"
    /\ outcome.err = NoError
    /\ outcome.ret = FALSE
    /\ Len(wValid) >= 2
    /\ wValid[Len(wValid)].id # outcome.arg.id
    /\ wValid[1].id = outcome.arg.id

\* C7: a draw of a handle r that is not valid removes from the valid
\* collection exactly the valid rects that intersect r, records r as valid and
\* returns true.
DrawEvictsIntersecting ==
    [][(/\ DrawStep
        /\ InBounds(outcome'.arg)
        /\ outcome'.arg.id \notin ValidIds(wValid)) =>
           /\ outcome'.err = NoError
           /\ outcome'.ret = TRUE
           /\ Range(wValid') =
                  {v \in Range(wValid) : ~Overlap(v, outcome'.arg)} \cup {outcome'.arg}
           /\ Len(wValid') = Cardinality(Range(wValid'))]_vars

\* a draw returned true, evicted a valid rect and left another one valid
DrawEvictsIntersectingWitness ==
    /\ outcome.op = "draw"
    /\ outcome.err = NoError
    /\ outcome.ret = TRUE
    /\ outcome.evicted # {}
    /\ Len(wValid) >= 2
    /\ \A e \in outcome.evicted : e.id \notin ValidIds(wValid)

\* C8: Window.draw compares rects by identity: draw(r) returns true for any
\* handle r that is not itself valid, even when a valid rect has the same
\* field values; the Rect a successful assignment to a Panel's rect stores is
\* not valid, and a draw of the panel's display_rect right after the
\* assignment returns true.
DrawIsByIdentity ==
    [][/\ (/\ DrawStep
           /\ InBounds(outcome'.arg)
           /\ outcome'.arg.id \notin ValidIds(wValid)) =>
              (outcome'.err = NoError /\ outcome'.ret = TRUE)
       /\ (outcome'.op = "Panel.rect" /\ outcome'.err = NoError) =>
              pRect'.id \notin ValidIds(wValid')
       /\ (/\ outcome.op = "Panel.rect"
           /\ outcome.err = NoError
           /\ DrawStep
           /\ outcome'.arg = pRect
           /\ InBounds(pRect)) => (outcome'.err = NoError /\ outcome'.ret = TRUE)]_vars

\* the draw of the panel's newly assigned rect returned true and evicted a
\* valid rect with the same field values
DrawIsByIdentityWitness ==
    /\ outcome.op = "draw"
    /\ outcome.err = NoError
    /\ outcome.ret = TRUE
    /\ outcome.arg = pRect
    /\ \E e \in outcome.evicted :
          RectValue(e) = RectValue(pRect) /\ e.id # pRect.id

\* C9: Window.draw(r) with r not fully contained in the bounds raises a bounds
\* error and leaves the bounds and the valid collection as they were.
RejectedDrawChangesNothing ==
    [][(DrawStep /\ SticksOut(outcome'.arg)) =>
           /\ outcome'.err = "BoundsError"
           /\ wBounds' = wBounds
           /\ wValid' = wValid
           /\ wDrawn' = wDrawn]_vars

\* a draw of a rect with cells outside the bounds raised while a rect was valid
RejectedDrawChangesNothingWitness ==
    /\ outcome.op = "draw"
    /\ outcome.err = "BoundsError"
    /\ Cells(outcome.arg) # {}
    /\ wValid # <<>>

\* C10: after Window.resize(newBounds) the valid collection is empty and the
\* bounds equal newBounds; the first draw of any in-bounds rect after a resize
\* returns true.
ResizeInvalidatesAll ==
    [][/\ outcome'.op = "resize" =>
              (wValid' = <<>> /\ wBounds' = outcome'.arg)
       /\ (outcome.op = "resize" /\ DrawStep /\ InBounds(outcome'.arg)) =>
              (outcome'.err = NoError /\ outcome'.ret = TRUE)]_vars

\* a resize emptied a valid collection that held the panel's rect, whose draw
\* would have returned false
ResizeInvalidatesAllWitness ==
    /\ outcome.op = "resize"
    /\ pRect \in outcome.evicted
    /\ wValid = <<>>
    /\ InBounds(pRect)

\* C36: in every state of the damage tracker the valid rects are pairwise
\* non-intersecting (no two of them share a cell) and each is contained in
\* the current bounds
ValidRectsDisjointInBounds ==
    \A i \in 1..Len(wValid) :
        /\ Contains(wBounds, wValid[i])
        /\ Cells(wValid[i]) \subseteq Cells(wBounds)
        /\ \A j \in 1..Len(wValid) :
              i # j => (/\ ~Intersects(wValid[i], wValid[j])
                        /\ ~Overlap(wValid[i], wValid[j]))

\* a draw evicted two valid rects at once: the rect drawn covers both, and is
\* the one valid rect left
ValidRectsDisjointInBoundsWitness ==
    /\ outcome.op = "draw"
    /\ outcome.err = NoError
    /\ Cardinality(outcome.evicted) >= 2
    /\ wValid = <<outcome.arg>>
    /\ \A e \in outcome.evicted : Overlap(e, outcome.arg)

-----------------------------------------------------------------------------
(* SpecLine: one Line under every assignment its setters accept or reject. *)

Letters == <<"a", "b", "c", "d", "e", "f">>

\* the data values written to a Line: "", "a", "ab", ... one longer than fits
LineDatas == {SubSeq(Letters, 1, n) : n \in 0..Min(MaxLineLen + 1, Len(Letters))}

LineLengths == 0..MaxLineLen

PadValues == (-MaxPad)..MaxPad

FillChars == {<<" ">>, <<".">>}

\* fill strings the validation rejects
BadFills == {<<>>, <<".", ".">>}

AttributeValues == {0, 1}

\* Style objects handed to the style setter as a whole
StyleSamples ==
    {DefaultStyle,
     StyleFromKeywords(<<".">>, None, <<1, -1>>, 0),
     StyleFromKeywords(<<" ">>, <<<<".">>, <<" ">>>>, <<-1, -2>>, 1),
     StyleFromKeywords(<<" ">>, None, <<MaxLineLen, 1>>, 0),
     StyleFromKeywords(<<>>, None, <<0, 0>>, 0),
     StyleFromKeywords(<<" ">>, <<<<".", ".">>, <<" ">>>>, <<1, 0>>, 0),
     StyleFromKeywords(<<".", ".">>, <<<<>>, <<" ">>>>, <<MaxLineLen, MaxLineLen>>, 0)}

\* the outcome of a Line setter
LineOutcome(op, r) == Outcome(op, IF r.ok THEN NoError ELSE "ValueError", None)

InitLine ==
    /\ \E length \in LineLengths, data \in LineDatas, style \in StyleSamples :
          \E r \in {LineInit(length, style, data)} : r.ok /\ line = r.ln
    /\ outcome = Outcome("Line", NoError, None)
    /\ pRect = Rect(0, -1, -1, -1, -1)
    /\ pLines = <<>>
    /\ pAvailable = -1
    /\ pStyle = DefaultStyle
    /\ cIndex = 0
    /\ cLine = 0
    /\ cMaxline = 0
    /\ wBounds = Rect(0, 0, 0, 1, 1)
    /\ wValid = <<>>
    /\ hRects = <<>>
    /\ wDrawn = {}
    /\ InitHost

LineAssignData(value) ==
    /\ line' = LineSetData(line, value)
    /\ outcome' = Outcome("Line.data", NoError, None)
    /\ UNCHANGED <<hostVars, panelVars, windowVars>>

LineAssignLength(value) ==
    /\ \E r \in {LineSetLength(line, value)} :
          /\ line' = r.ln
          /\ outcome' = LineOutcome("Line.length", r)
    /\ UNCHANGED <<hostVars, panelVars, windowVars>>

LineAssignStyle(style) ==
    /\ \E r \in {LineSetStyle(line, style)} :
          /\ line' = r.ln
          /\ outcome' = LineOutcome("Line.style", r)
    /\ UNCHANGED <<hostVars, panelVars, windowVars>>

LineAssignPadding(value) ==
    /\ \E r \in {LineSetPadding(line, value)} :
          /\ line' = r.ln
          /\ outcome' = LineOutcome("Line.padding", r)
    /\ UNCHANGED <<hostVars, panelVars, windowVars>>

LineAssignPaddingFills(value) ==
    /\ \E r \in {LineSetPaddingFills(line, value)} :
          /\ line' = r.ln
          /\ outcome' = LineOutcome("Line.padding_fills", r)
    /\ UNCHANGED <<hostVars, panelVars, windowVars>>

LineAssignFill(value) ==
    /\ \E r \in {LineSetFill(line, value)} :
          /\ line' = r.ln
          /\ outcome' = LineOutcome("Line.fill", r)
    /\ UNCHANGED <<hostVars, panelVars, windowVars>>

LineAssignAttributes(value) ==
    /\ \E r \in {LineSetAttributes(line, value)} :
          /\ line' = r.ln
          /\ outcome' = LineOutcome("Line.attributes", r)
    /\ UNCHANGED <<hostVars, panelVars, windowVars>>

\* the drawing code clears the flag of a line it has painted
LineClearDirty ==
    /\ line' = [line EXCEPT !.dirty = FALSE]
    /\ outcome' = Outcome("draw", NoError, None)
    /\ UNCHANGED <<hostVars, panelVars, windowVars>>

NextLine ==
    \/ \E value \in LineDatas : LineAssignData(value)
    \/ \E value \in LineLengths : LineAssignLength(value)
    \/ \E style \in StyleSamples : LineAssignStyle(style)
    \/ \E l \in PadValues, r \in PadValues : LineAssignPadding(<<l, r>>)
    \/ \E l \in FillChars \cup BadFills :
          LineAssignPaddingFills(<<l, <<" ">>>>)
    \/ \E value \in FillChars \cup BadFills : LineAssignFill(value)
    \/ \E value \in AttributeValues : LineAssignAttributes(value)
    \/ LineClearDirty

SpecLine == InitLine /\ [][NextLine]_vars

\* C5: after construction and after any sequence of accepted or rejected
\* assignments to a Line's data, style and length, its display has exactly
\* `length` characters.
DisplayHasLength == Len(line.display) = line.length

\* reached: an assignment was rejected, and one with variable padding on
\* both sides was accepted for data shorter than the line
DisplayHasLengthWitness ==
    /\ outcome.op = "Line.length"
    /\ outcome.err = "ValueError"
    /\ line.style.padding.values = <<-1, -2>>
    /\ Len(line.data) + 1 < line.length
    /\ Len(line.display) = line.length

-----------------------------------------------------------------------------
(* SpecDraw: a panel with the default style under its own calls, the       *)
(* editing calls of its cursor, and the drawing code that repaints it and  *)
(* clears the dirty flags of its rows.                                     *)

\* a pan that starts the slice at the cursor
PanStartAtIndex(index, display_length) == index

\* the first character of the slice when the data does not fit
PanStart(index, display_length) == Max(0, index - (display_length - 1))

\* a pan that also returns data of exactly the display's length whole
PanWhenFits(data, index, display_length) ==
    IF Len(data) <= display_length
    THEN data
    ELSE Slice(data, PanStart(index, display_length),
               PanStart(index, display_length) + display_length)

\* Cursor.pan(display_length) on a row holding data
Pan(data, index, display_length) ==
    IF Len(data) < display_length
    THEN data
    ELSE Slice(data, PanStart(index, display_length),
               PanStart(index, display_length) + display_length)

\* the rows once the drawing loop has set line.dirty = False on each
Painted(lines) == [i \in 1..Len(lines) |-> [lines[i] EXCEPT !.dirty = FALSE]]

\* curses accepts a write of value at (x, y): the text lies on the terminal,
\* whose size the window's bounds follow
WriteFits(x, y, value) ==
    /\ 0 <= x
    /\ 0 <= y
    /\ y < wBounds.height
    /\ x + Len(value) <= wBounds.width

\* the terminal after write_text(x, y, value, ...) returned
Written(text, x, y, value) ==
    [at \in DOMAIN text \cup {<<x, y>>} |-> IF at = <<x, y>> THEN value ELSE text[at]]

\* the loop of _unsafe_draw over the rows, from row i on: a row is written
\* when the whole panel is to be repainted or the row is dirty, and is then
\* marked clean; a write curses refuses ends the loop with CursesError
RECURSIVE PaintRows(_, _, _, _)
PaintRows(lines, text, repaint, i) ==
    IF i > Len(lines) THEN [err |-> NoError, lines |-> lines, shown |-> text]
    ELSE IF ~(repaint \/ lines[i].dirty)
    THEN PaintRows([lines EXCEPT ![i].dirty = FALSE], text, repaint, i + 1)
    ELSE IF ~WriteFits(pRect.left, pRect.top + i - 1, lines[i].display)
    THEN [err |-> "CursesError", lines |-> lines, shown |-> text]
    ELSE PaintRows([lines EXCEPT ![i].dirty = FALSE],
                   Written(text, pRect.left, pRect.top + i - 1, lines[i].display),
                   repaint, i + 1)

\* the pads _handle_active_cursor draws around the panned data: a variable
\* right pad gives up one character for the cursor
CursorPads(ln) ==
    LET pads == CalculatePads(ln.style, ln.data, ln.length)
    IN  IF ln.style.padding.values[2] < 0 /\ pads[2] # <<>>
        THEN <<pads[1], Tail(pads[2])>>
        ELSE pads

\* the text _handle_active_cursor writes over the row under the cursor
PannedDisplay(ln) ==
    LET pads == CursorPads(ln)
        remaining == ln.length - Len(pads[1]) - Len(pads[2])
        panned == Pan(ln.data, cIndex, remaining)
    IN  pads[1] \o panned \o Repeat(<<" ">>, remaining - Len(panned)) \o pads[2]

\* _handle_active_cursor(panel, panel.cursor) after the rows were painted
HandleActiveCursor(painted) ==
    IF ~IndexOk(painted.lines, cLine)
    THEN [painted EXCEPT !.err = "IndexError"]
    ELSE IF ~WriteFits(pRect.left, cLine + pRect.top,
                       PannedDisplay(painted.lines[Pos(painted.lines, cLine)]))
    THEN [painted EXCEPT !.err = "CursesError"]
    ELSE [painted EXCEPT !.shown =
              Written(painted.shown, pRect.left, cLine + pRect.top,
                      PannedDisplay(painted.lines[Pos(painted.lines, cLine)]))]

\* the body of _unsafe_draw's loop for the panel, given what Window.draw
\* returned
DrawPanel(repaint) ==
    LET painted == PaintRows(pLines, shown, repaint, 1)
    IN  IF painted.err = NoError /\ active THEN HandleActiveCursor(painted)
        ELSE painted

\* api._unsafe_draw(panel): Window.draw(panel.display_rect), then the loop
\* over the rows and the active cursor; a bounds error leaves the loop
\* unentered
UnsafeDraw ==
    /\ UNCHANGED <<apiVars, curseVars, keyVars, active, line, pRect, pAvailable, pStyle,
                   cIndex, cLine, cMaxline, wBounds, hRects>>
    /\ IF ~Contains(wBounds, pRect)
       THEN /\ outcome' = WindowOutcome("_unsafe_draw", pRect, "BoundsError", None, {})
            /\ UNCHANGED <<pLines, wValid, wDrawn, shown>>
       ELSE \E kept \in {IF InValid(wValid, pRect) THEN wValid
                         ELSE Append(Evict(wValid, pRect, 1), pRect)} :
            \E done \in {DrawPanel(~InValid(wValid, pRect))} :
               /\ wValid' = kept
               /\ wDrawn' = Drawn(wDrawn, pRect)
               /\ pLines' = done.lines
               /\ shown' = done.shown
               /\ outcome' = WindowOutcome("_unsafe_draw", pRect, done.err,
                                           ~InValid(wValid, pRect),
                                           Range(wValid) \ Range(kept))

\* api.set_active_cursor(panel.cursor)
SetActiveCursor ==
    /\ active' = TRUE
    /\ outcome' = Outcome("set_active_cursor", NoError, None)
    /\ UNCHANGED <<apiVars, curseVars, keyVars, shown, line, panelVars, windowVars>>

\* api.clear_active_cursor()
ClearActiveCursor ==
    /\ active' = FALSE
    /\ outcome' = Outcome("clear_active_cursor", NoError, None)
    /\ UNCHANGED <<apiVars, curseVars, keyVars, shown, line, panelVars, windowVars>>

\* row indexes that exist in a panel of the greatest height
DrawRows == 0..(MaxHeight - 1)

ShiftSteps == 1..MaxHeight

\* the strings the cursor inserts while the panel is drawn: the rows hold the
\* same texts whether written through the panel or through the cursor
DrawInserts == RowValues \ {<<>>}

\* the state once the api has sized its window to the screen
InitDraw ==
    /\ InitPanel
    /\ pStyle = DefaultStyle
    /\ line = ClassLine
    /\ wBounds \in {Rect(0, 0, 0, side, side) : side \in ScreenSides}
    /\ wValid = <<>>
    /\ hRects = <<>>
    /\ wDrawn = {}
    /\ InitHost
    /\ outcome = Outcome("Panel", NoError, None)

NextDraw ==
    \/ \E h \in 1..MaxHeight : PanelSetRect(0, 0, MaxWidth, h)
    \/ \E i \in DrawRows, v \in RowValues : PanelWriteln(i, v)
    \/ \E i \in DrawRows : PanelClearln(i)
    \/ \E i \in DrawRows, v \in RowValues : PanelInsertln(i, v)
    \/ \E i \in DrawRows : PanelDeleteln(i)
    \/ \E n \in ShiftSteps : PanelShiftUp(n)
    \/ \E n \in ShiftSteps : PanelShiftDown(n)
    \/ \E v \in RowValues : PanelWriteIfAvailable(v)
    \/ \E v \in DrawInserts : InsertFits(v, MaxData) /\ CursorInsert(v)
    \/ \E n \in ShiftSteps : CursorBackspace(n)
    \/ \E n \in ShiftSteps : CursorDelete(n)
    \/ \E n \in ShiftSteps : CursorLeft(n)
    \/ \E n \in ShiftSteps : CursorDown(n)
    \/ \E n \in ShiftSteps : CursorUp(n)
    \/ UnsafeDraw

SpecDraw == InitDraw /\ [][NextDraw]_vars

\* the step is a shift_up or shift_down that returned
ShiftStep == outcome'.op \in {"shift_up", "shift_down"} /\ outcome'.err = NoError

\* C11: after shift_up(n) or shift_down(n) returns, every row of the panel is
\* dirty whatever the flags were before: n > 0, so each row is either a
\* survivor that sits at a different index or a freshly built row.
ShiftMarksRowsDirty ==
    [][ShiftStep => \A i \in 1..Len(pLines') : pLines'[i].dirty]_vars

\* reached: a shift returned in a panel that keeps a row written earlier (a
\* survivor: fresh rows hold no data) next to a fresh row
ShiftMarksRowsDirtyWitness ==
    /\ outcome.op \in {"shift_up", "shift_down"}
    /\ outcome.err = NoError
    /\ \E i \in 1..Len(pLines) : pLines[i].data # <<>> /\ pLines[i].dirty
    /\ \E i \in 1..Len(pLines) : pLines[i].data = <<>> /\ pLines[i].dirty

\* the step is a call of Line, Panel or Cursor, not the drawing code
CoreStep == outcome'.op # "_unsafe_draw"

\* C12: no call of Line, Panel or Cursor clears a dirty flag: a row that is
\* dirty at a panel index is dirty after the call if the index still exists.
\* Only the drawing code sets a flag to false.
DirtyStaysDirty ==
    [][CoreStep =>
         \A i \in 1..Len(pLines) :
            (i <= Len(pLines') /\ pLines[i].dirty) => pLines'[i].dirty]_vars

\* reached: after a repaint cleared the flags, a write through the panel has
\* made one row dirty while another row is still clean
DirtyStaysDirtyWitness ==
    /\ outcome.op = "writeln"
    /\ outcome.err = NoError
    /\ \E i \in 1..Len(pLines) : pLines[i].dirty /\ pLines[i].data # <<>>
    /\ \E i \in 1..Len(pLines) : ~pLines[i].dirty

-----------------------------------------------------------------------------
(* Line setters and the dirty flag, under SpecLine.                        *)

\* the last call was an assignment to data, style or length that returned
LineAssigned ==
    /\ outcome.op \in {"Line.data", "Line.style", "Line.length"}
    /\ outcome.err = NoError

\* C13: after a successful assignment to a Line's data, style or length the
\* line is dirty and its display is the layout of its (data, style, length),
\* whatever value was assigned and whatever dirty was before.
AssignmentMarksDirty ==
    LineAssigned => /\ line.dirty
                    /\ line.display = UpdateDisplay(line).display

-----------------------------------------------------------------------------
(* The Cursor's calls one by one, under SpecCursor.                        *)

\* the amounts a movement call accepts
MoveAmounts == 0..MaxHeight

-----------------------------------------------------------------------------
(* Panel calls one by one, under Spec.                                     *)

\* the rows of after hold the data of the rows of before, except that row
\* index (0-based) holds value
WrittenAt(before, after, index, value) ==
    /\ Len(after) = Len(before)
    /\ \A i \in 1..Len(before) :
          after[i].data = IF i = index + 1 THEN value ELSE before[i].data

\* C15: in every reachable state of a panel with an assigned rect,
\* write_if_available(value) writes value to the lowest-index row whose data
\* is empty when there is one, and changes nothing and raises nothing when no
\* row is empty.
WriteIfAvailableFindsEmptyRow ==
    [][\A value \in RowValues :
          (PlainPanel /\ PanelWriteIfAvailable(value)) =>
             /\ outcome'.err = NoError
             /\ IF HasEmpty(pLines)
                THEN WrittenAt(pLines, pLines', FirstAvailable(pLines), value)
                ELSE UNCHANGED <<pLines, pAvailable>>]_vars

-----------------------------------------------------------------------------
(* SpecRect: a panel under rect assignments of every kind, between writes  *)
(* to its rows.                                                            *)

NextRect ==
    \/ \E l \in RectLefts, t \in RectLefts, w \in RectWidths, h \in RectHeights :
          PanelSetRect(l, t, w, h)
    \/ \E i \in RowIndexes, v \in RowValues : PanelWriteln(i, v)

SpecRect == Init /\ [][NextRect]_vars

\* the constraints left >= 0, top >= 0, width > 0, height > 0 that a rect
\* violates, by the name the error gives each
RectViolations(left, top, width, height) ==
    (IF left >= 0 THEN {} ELSE {"Panel.left"})
    \cup (IF top >= 0 THEN {} ELSE {"Panel.top"})
    \cup (IF width > 0 THEN {} ELSE {"Panel.width"})
    \cup (IF height > 0 THEN {} ELSE {"Panel.height"})

RectNames == {"Panel.left", "Panel.top", "Panel.width", "Panel.height"}

\* C16: a rect assignment that violates some of left >= 0, top >= 0,
\* width > 0, height > 0 raises one ValueError naming every violated
\* constraint, and one that violates none raises no error about the rect.
RectErrorsArePooled ==
    [][\A l \in RectLefts, t \in RectLefts, w \in RectWidths, h \in RectHeights :
          PanelSetRect(l, t, w, h) =>
             IF RectViolations(l, t, w, h) # {}
             THEN /\ outcome'.err = "ValueError"
                  /\ outcome'.ret = RectViolations(l, t, w, h)
             ELSE \/ outcome'.err = NoError
                  \/ /\ outcome'.err = "ValueError"
                     /\ outcome'.ret \cap RectNames = {}]_vars

\* reached: an assignment to a panel that had a rect was rejected for three
\* violations at once
RectErrorsArePooledWitness ==
    /\ outcome.op = "Panel.rect"
    /\ outcome.err = "ValueError"
    /\ outcome.ret = {"Panel.left", "Panel.width", "Panel.height"}
    /\ RectAssigned

-----------------------------------------------------------------------------
(* Line validation, under SpecLine.                                        *)

\* the sum of the fixed (non-negative) padding values
FixedPadding(values) ==
    (IF values[1] >= 0 THEN values[1] ELSE 0) + (IF values[2] >= 0 THEN values[2] ELSE 0)

\* a Line of this length and style is not allowed
InvalidConfig(length, style) ==
    \/ length <= 0
    \/ FixedPadding(style.padding.values) >= length
    \/ Len(style.fill) # 1
    \/ Len(style.padding.fills[1]) # 1
    \/ Len(style.padding.fills[2]) # 1

\* C17: constructing a Line, or assigning its length or its style, raises
\* ValueError exactly when the resulting (length, style) has length <= 0, or
\* fixed padding values whose sum is >= length, or a fill or padding fill
\* that is not one character; a rejected assignment leaves the line's
\* length, style, data and display as they were.
LineRejectsInvalidConfig ==
    /\ \A length \in LineLengths, style \in StyleSamples, data \in LineDatas :
          LineInit(length, style, data).ok <=> ~InvalidConfig(length, style)
    /\ [][/\ \A value \in LineLengths :
               LineAssignLength(value) =>
                  /\ (outcome'.err = "ValueError") <=> InvalidConfig(value, line.style)
                  /\ outcome'.err = "ValueError" => line' = line
            /\ \A style \in StyleSamples :
               LineAssignStyle(style) =>
                  /\ (outcome'.err = "ValueError") <=> InvalidConfig(line.length, style)
                  /\ outcome'.err = "ValueError" => line' = line]_vars

\* reached: a padded line holding data has just rejected a style whose fills
\* are not one character each
LineRejectsInvalidConfigWitness ==
    /\ outcome.op = "Line.style"
    /\ outcome.err = "ValueError"
    /\ line.style.padding.values = <<1, -1>>
    /\ line.data # <<>>
    /\ line.length = MaxLineLen

-----------------------------------------------------------------------------
(* Cursor.backspace and Cursor.delete, under SpecCursor.                   *)

\* how many of the avail characters a call with amount n removes
RemovedCount(n, avail) == IF n < 0 THEN avail ELSE Min(n, avail)

\* s without the count characters that follow position from (0-based)
Cut(s, from, count) == SubSeq(s, 1, from) \o SubSeq(s, from + count + 1, Len(s))

\* C18: backspace(n) removes exactly the min(n, index) characters before
\* index (all of them when n < 0), moves index back by that count and
\* returns them; delete(n) removes exactly the min(n, len - index)
\* characters from index on (all of them when n < 0), keeps index and
\* returns them; neither changes the cursor's line or any other row's data.
BackspaceDeleteStayInRow ==
    [][\A n \in CursorAmounts :
          /\ CursorBackspace(n) =>
                \E k \in {RemovedCount(n, cIndex)} :
                   /\ outcome'.err = NoError
                   /\ outcome'.ret = SubSeq(Current, cIndex - k + 1, cIndex)
                   /\ cIndex' = cIndex - k
                   /\ cLine' = cLine
                   /\ WrittenAt(pLines, pLines', cLine, Cut(Current, cIndex - k, k))
          /\ CursorDelete(n) =>
                \E k \in {RemovedCount(n, Len(Current) - cIndex)} :
                   /\ outcome'.err = NoError
                   /\ outcome'.ret = SubSeq(Current, cIndex + 1, cIndex + k)
                   /\ cIndex' = cIndex
                   /\ cLine' = cLine
                   /\ WrittenAt(pLines, pLines', cLine, Cut(Current, cIndex, k))]_vars

\* reached: backspace(1) took one of the two characters before the cursor,
\* on the second row of a panel whose first row holds data
BackspaceDeleteStayInRowWitness ==
    /\ outcome.op = "backspace"
    /\ outcome.err = NoError
    /\ Len(outcome.ret) = 1
    /\ cIndex = 1
    /\ cLine = 1
    /\ Len(Current) = 1
    /\ pLines[1].data # <<>>

-----------------------------------------------------------------------------
(* SpecCursorSet: a Cursor that starts in range, under its calls and under *)
(* assignments to its index and line.                                      *)

\* the values assigned: from below -len - 1 to above len
SetValues == (-MaxRow - 1)..(MaxRow + 1)

NextCursorSet ==
    \/ NextCursorCalls
    \/ \E v \in SetValues : CursorSetIndex(v)
    \/ \E v \in SetValues : CursorSetLine(v)

SpecCursorSet == InitCursor /\ [][NextCursorSet]_vars

\* the step is an assignment to line, an up() or a down()
LineStep == outcome'.op \in {"line", "up", "down"}

\* C19: when line changes to a different line (by assignment, up or down)
\* index afterwards is min(previous index, len(data of the new row)); it
\* becomes 0 only if it was 0 or the new row is empty.
IndexClampedOnLineChange ==
    [][(LineStep /\ cLine' # cLine) =>
          /\ cIndex' = Min(cIndex, Len(pLines'[cLine' + 1].data))
          /\ cIndex' = 0 => (cIndex = 0 \/ Len(pLines'[cLine' + 1].data) < 1)]_vars

\* reached: an assignment to line has put the cursor on the first row at the
\* end of its data, the second row being longer
IndexClampedOnLineChangeWitness ==
    /\ outcome.op = "line"
    /\ outcome.err = NoError
    /\ cLine = 0
    /\ cMaxline > 0
    /\ cIndex = Len(Current)
    /\ cIndex > 0
    /\ Len(pLines[2].data) > Len(Current)

\* the value a setter that wraps negative values from most + 1 and clamps to
\* [0, most] ends on
Clamped(v, most) == IF v >= 0 THEN Min(v, most) ELSE Max(0, most + 1 + v)

\* C20: assigning v to index sets it to min(v, len(row)) for v >= 0 and to
\* max(0, len(row) + 1 + v) for v < 0; assigning v to line sets it to
\* min(v, maxline) for v >= 0 and to max(0, maxline + 1 + v) for v < 0;
\* neither assignment raises.
SettersClamp ==
    [][\A v \in SetValues :
          /\ CursorSetIndex(v) =>
                /\ outcome'.err = NoError
                /\ cIndex' = Clamped(v, Len(Current))
          /\ CursorSetLine(v) =>
                /\ outcome'.err = NoError
                /\ cLine' = Clamped(v, cMaxline)]_vars

\* reached: an assignment to index has put the cursor in the middle of a row
\* of the last line of the panel
SettersClampWitness ==
    /\ outcome.op = "index"
    /\ outcome.err = NoError
    /\ cLine = cMaxline
    /\ cMaxline > 0
    /\ 0 < cIndex
    /\ cIndex < Len(Current)

-----------------------------------------------------------------------------
(* SpecPads: a Line whose two pads are both variable, under assignments of *)
(* its weights, its length and its data.                                   *)

\* the largest weight of a variable pad
MaxWeight == 7

\* the longest line with variable pads
MaxPadLen == 5

Weights == (-MaxWeight)..(-1)

PadLengths == 1..MaxPadLen

PadDatas == {SubSeq(Letters, 1, n) : n \in 0..2}

\* Line(length, data=data, padding=(l, r), padding_fills=("<", ">"))
InitPads ==
    /\ \E length \in PadLengths, data \in PadDatas, l \in Weights, r \in Weights :
          \E made \in {LineInit(length,
                                StyleFromKeywords(<<" ">>, <<<<"<">>, <<">">>>>,
                                                  <<l, r>>, 0),
                                data)} :
             made.ok /\ line = made.ln
    /\ outcome = Outcome("Line", NoError, None)
    /\ pRect = Rect(0, -1, -1, -1, -1)
    /\ pLines = <<>>
    /\ pAvailable = -1
    /\ pStyle = DefaultStyle
    /\ cIndex = 0
    /\ cLine = 0
    /\ cMaxline = 0
    /\ wBounds = Rect(0, 0, 0, 1, 1)
    /\ wValid = <<>>
    /\ hRects = <<>>
    /\ wDrawn = {}
    /\ InitHost

NextPads ==
    \/ \E l \in Weights, r \in Weights : LineAssignPadding(<<l, r>>)
    \/ \E length \in PadLengths : LineAssignLength(length)
    \/ \E data \in PadDatas : LineAssignData(data)

SpecPads == InitPads /\ [][NextPads]_vars

\* the space the line has left over for its two pads
Leftover == line.length - Len(line.data)

\* the line has two variable pads and data shorter than itself
BothVariable ==
    /\ line.style.padding.values[1] < 0
    /\ line.style.padding.values[2] < 0
    /\ Leftover > 0

\* the two extra pad lengths of the line
Extras == VariableExtras(line.style.padding.values, Leftover)

\* C21: with both pads variable and data shorter than the line, the two extra
\* pad lengths are >= 0 and sum to the leftover space, the rounded shares are
\* never off by more than one, and the display is the pads around the data.
ExtrasSumToLeftover ==
    BothVariable =>
       /\ VariableOffOk(line.style.padding.values, Leftover)
       /\ Extras[1] >= 0
       /\ Extras[2] >= 0
       /\ Extras[1] + Extras[2] = Leftover
       /\ line.display = Repeat(line.style.padding.fills[1], Extras[1])
                            \o line.data
                            \o Repeat(line.style.padding.fills[2], Extras[2])

\* reached: weights 3 and 7 share a leftover of 5, which rounding overshoots
ExtrasSumToLeftoverWitness ==
    /\ BothVariable
    /\ line.style.padding.values = <<-3, -7>>
    /\ Leftover = 5
    /\ line.display = <<"<", ">", ">", ">", ">">>
    /\ outcome.op = "Line.padding"

\* the rounded share of side i (1 left, 2 right) before any correction
Share(i) ==
    Round(Abs(line.style.padding.values[i]) * Leftover,
          Abs(line.style.padding.values[1] + line.style.padding.values[2]))

\* what the leftover exceeds the two rounded shares by: 1, 0 or -1
Off == Leftover - (Share(1) + Share(2))

\* C22 as stated: when the rounded shares miss the leftover by exactly one,
\* the corrective unit (+1 or -1) goes to the side whose rounded share is
\* larger, and to the left side when the shares are equal.
UnitGoesToLargerShare ==
    (BothVariable /\ Off # 0) =>
       Extras = IF Share(1) >= Share(2) THEN <<Share(1) + Off, Share(2)>>
                ELSE <<Share(1), Share(2) + Off>>

\* C22 amended: a missing unit (+1) goes to the side whose rounded share is
\* larger, to the left side on a tie; a unit too many (-1) is taken from the
\* side whose rounded share is smaller, from the right side on a tie.  Either
\* way the larger share, or the left one on a tie, ends with the extra space.
UnitFavoursLargerShare ==
    (BothVariable /\ Off # 0) =>
       Extras = IF Off = 1
                THEN IF Share(1) >= Share(2) THEN <<Share(1) + 1, Share(2)>>
                     ELSE <<Share(1), Share(2) + 1>>
                ELSE IF Share(1) >= Share(2) THEN <<Share(1), Share(2) - 1>>
                     ELSE <<Share(1) - 1, Share(2)>>

\* reached: Line(5, data="ab", padding=(-1, -1)): the shares of 3 round to 2
\* and 2, and the line shows 2 pad characters on the left and 1 on the right
UnitFavoursLargerShareWitness ==
    /\ line.length = 5
    /\ line.data = <<"a", "b">>
    /\ line.style.padding.values = <<-1, -1>>
    /\ Off = -1
    /\ line.display = <<"<", "<", "a", "b", ">">>

-----------------------------------------------------------------------------
(* SpecApi: the module-level functions of api.py around one panel: blocks  *)
(* of `with tuindow.init(...)` are entered and left, and update, draw and  *)
(* keys are called at any point, inside a block or outside of one.  Blocks *)
(* are not nested.                                                         *)

\* the ways control leaves the body of a `with` block
ExitWays == {"return", "exception"}

\* `with tuindow.init(on_resize)`: the code of init up to its yield.  The
\* window is made anew and resized to the screen, _instance is assigned, and
\* on_resize is called; when on_resize raises, the exception passes through
\* Instance.__exit__ and out of init before the body is entered.
ApiInit(width, height, raises) ==
    /\ ~inBlock
    /\ instance' = "Instance"
    /\ wBounds' = Rect(0, 0, 0, width, height)
    /\ wValid' = <<>>
    /\ wDrawn' = {}
    /\ inBlock' = ~raises
    /\ outcome' = WindowOutcome("init", <<width, height>>,
                                IF raises THEN "Exception" ELSE NoError, None, {})
    /\ UNCHANGED <<curseVars, termVars, keyVars, line, panelVars, hRects>>

\* the body of the block ends: Instance.__exit__ runs and does not swallow an
\* exception, so the assignment `_instance = None` after the inner `with` is
\* reached only when the body was left without one
ApiLeave(how) ==
    /\ inBlock
    /\ inBlock' = FALSE
    /\ instance' = IF how = "return" THEN None ELSE instance
    /\ outcome' = Outcome("leave", IF how = "return" THEN NoError ELSE "Exception", how)
    /\ UNCHANGED <<curseVars, termVars, keyVars, line, panelVars, windowVars>>

\* _requires_init around a call that only reads the backend: TuindowError
\* when _instance is None; the backend of a block that was left may still
\* answer or may fail
ApiRead(op) ==
    /\ UNCHANGED <<hostVars, line, panelVars, windowVars>>
    /\ IF instance = None
       THEN outcome' = Outcome(op, "TuindowError", None)
       ELSE \E err \in IF inBlock THEN {NoError} ELSE {NoError, "CursesError"} :
               outcome' = Outcome(op, err, None)

ApiUpdate == ApiRead("update")

ApiKeys == ApiRead("keys")

\* tuindow.draw(panel): _requires_init, then _unsafe_draw
ApiDraw ==
    IF instance = None
    THEN /\ outcome' = Outcome("draw", "TuindowError", None)
         /\ UNCHANGED <<hostVars, line, panelVars, windowVars>>
    ELSE UnsafeDraw

InitApi ==
    /\ InitPanel
    /\ pStyle = DefaultStyle
    /\ line = ClassLine
    /\ wBounds = Rect(0, 0, 0, 1, 1)
    /\ wValid = <<>>
    /\ hRects = <<>>
    /\ wDrawn = {}
    /\ InitHost
    /\ outcome = Outcome("Panel", NoError, None)

NextApi ==
    \/ \E side \in ScreenSides, raises \in BOOLEAN : ApiInit(side, side, raises)
    \/ \E how \in ExitWays : ApiLeave(how)
    \/ ApiUpdate
    \/ ApiKeys
    \/ ApiDraw
    \/ \E w \in 1..MaxWidth, h \in 1..MaxHeight : PanelSetRect(0, 0, w, h)
    \/ \E i \in DrawRows, v \in RowValues : PanelWriteln(i, v)

SpecApi == InitApi /\ [][NextApi]_vars

\* the calls that _requires_init guards, by the name their outcome carries
GuardedCalls == {"update", "keys", "draw", "_unsafe_draw"}

\* C23: update, draw and keys raise TuindowError whenever they are called at
\* a point where no `with tuindow.init(...)` block is active: before the
\* first init and after any block has been left, however it was left.
GuardedOutsideInit ==
    [][(~inBlock /\ outcome'.op \in GuardedCalls) => outcome'.err = "TuindowError"]_vars

-----------------------------------------------------------------------------
(* SpecHost: window.Window, the curses window that hands out panels: its   *)
(* panel() call, its default_panel property and its handling of a resized  *)
(* terminal.  A panel is kept here by the Rect value of its rect.          *)

MaxTerm == 2

TermSides == 1..MaxTerm
HostLefts == (-1)..(MaxTerm - 1)
HostSizes == (-1)..(MaxTerm + 1)

\* Window.rect: a structs.Rect, which has the attributes left, top, right, bottom
WindowRect == [class |-> "Rect", rect |-> Rect(0, 0, 0, screen[1], screen[2])]

\* Panel.rect read back: a plain tuple (left, top, width, height)
PanelRectGetter(rect) == [class |-> "tuple", rect |-> rect]

\* validation._rect_contained reads rect.left, rect.right, ...: a value of a
\* class without these attributes ends the call with AttributeError
RectContained(value, bounds) ==
    IF value.class # "Rect" \/ bounds.class # "Rect"
    THEN "AttributeError"
    ELSE Contains(bounds.rect, value.rect)

\* validation._rects_collide, likewise
RectsCollide(r1, r2) ==
    IF r1.class # "Rect" \/ r2.class # "Rect"
    THEN "AttributeError"
    ELSE Intersects(r1.rect, r2.rect)

\* Window._check_panel_collisions inside validation.pool(WindowError): the
\* pooled errors, or the exception that escapes the block
CheckPanelCollisions(value, others) ==
    LET bounds == RectContained(value, WindowRect)
        hits == {i \in 1..Len(others) : RectsCollide(value, PanelRectGetter(others[i])) = TRUE}
        broken == {i \in 1..Len(others) :
                      RectsCollide(value, PanelRectGetter(others[i])) = "AttributeError"}
    IN  IF bounds = "AttributeError" \/ broken # {}
        THEN [raised |-> "AttributeError", errs |-> {}]
        ELSE [raised |-> NoError,
              errs |-> (IF bounds THEN {} ELSE {"bounds"}) \cup {<<"collision", i>> : i \in hits}]

\* Window._mutually_exclusive_panels
MutuallyExclusive(users, default) == users # <<>> /\ default # <<>>

\* buffers.Panel(left, top, width, height) leaves the rect unset when width or
\* height is -1
Deferred(width, height) == width = -1 \/ height = -1

\* Window.panel(left, top, width, height)
HostPanel(left, top, width, height) ==
    /\ UNCHANGED <<apiVars, termVars, keyVars, screen, dPanel, line, panelVars, windowVars>>
    /\ IF ~Deferred(width, height) /\ RectErrors(left, top, width, height) # {}
       THEN /\ outcome' = WindowOutcome("panel", <<left, top, width, height>>, "ValueError",
                                        RectErrors(left, top, width, height), {})
            /\ pooling' = FALSE
            /\ UNCHANGED uPanels
       ELSE \E new \in {IF Deferred(width, height) THEN Rect(0, 0, 0, 0, 0)
                                                   ELSE Rect(0, left, top, width, height)} :
            \E checked \in {CheckPanelCollisions(PanelRectGetter(new), uPanels)} :
               IF checked.raised # NoError
               THEN /\ outcome' = WindowOutcome("panel", <<left, top, width, height>>,
                                                checked.raised, None, {})
                    /\ pooling' = TRUE
                    /\ UNCHANGED uPanels
               ELSE /\ pooling' = FALSE
                    /\ IF checked.errs # {}
                       THEN /\ outcome' = WindowOutcome("panel", <<left, top, width, height>>,
                                                        "WindowError", checked.errs, {})
                            /\ UNCHANGED uPanels
                       ELSE /\ uPanels' = Append(uPanels, new)
                            /\ outcome' = WindowOutcome("panel", <<left, top, width, height>>,
                                             IF MutuallyExclusive(uPanels', dPanel)
                                             THEN "WindowError" ELSE NoError, new, {})

\* Window.default_panel
HostDefaultPanel ==
    /\ UNCHANGED <<apiVars, termVars, keyVars, screen, uPanels, line, panelVars, windowVars>>
    /\ dPanel' = IF dPanel = <<>> THEN <<Rect(0, 0, 0, screen[1], screen[2])>> ELSE dPanel
    /\ pooling' = IF dPanel = <<>> THEN FALSE ELSE pooling
    /\ outcome' = WindowOutcome("default_panel", None,
                                IF MutuallyExclusive(uPanels, dPanel') THEN "WindowError"
                                                                       ELSE NoError,
                                dPanel', {})

\* the terminal takes a new size and Window._do_layout runs
HostResize(width, height) ==
    /\ UNCHANGED <<apiVars, termVars, keyVars, line, panelVars, windowVars>>
    /\ screen' = <<width, height>>
    /\ dPanel' = IF dPanel = <<>> THEN <<>> ELSE <<Rect(0, 0, 0, width, height)>>
    /\ \E checked \in {IF uPanels = <<>> THEN [raised |-> NoError, errs |-> {}]
                       ELSE [raised |-> "AttributeError", errs |-> {}]} :
          /\ outcome' = WindowOutcome("_do_layout", <<width, height>>, checked.raised, None, {})
          /\ pooling' = IF uPanels # <<>> THEN TRUE
                        ELSE IF dPanel # <<>> THEN FALSE ELSE pooling
    /\ UNCHANGED uPanels

InitCurses ==
    /\ InitPanel
    /\ pStyle = DefaultStyle
    /\ line = ClassLine
    /\ wBounds = Rect(0, 0, 0, 1, 1)
    /\ wValid = <<>>
    /\ hRects = <<>>
    /\ wDrawn = {}
    /\ instance = None
    /\ inBlock = FALSE
    /\ screen \in {<<w, h>> : w \in TermSides, h \in TermSides}
    /\ uPanels = <<>>
    /\ dPanel = <<>>
    /\ pooling = FALSE
    /\ shown = <<>>
    /\ active = FALSE
    /\ InitKeys
    /\ outcome = Outcome("Window", NoError, None)

NextHost ==
    \/ \E l \in HostLefts, t \in HostLefts, w \in HostSizes, h \in HostSizes : HostPanel(l, t, w, h)
    \/ HostDefaultPanel
    \/ \E w \in TermSides, h \in TermSides : HostResize(w, h)

SpecHost == InitCurses /\ [][NextHost]_vars

\* a panel() call whose arguments buffers.Panel accepts as a rect
PanelCallOf(o) ==
    /\ o.op = "panel"
    /\ ~Deferred(o.arg[3], o.arg[4])
    /\ RectErrors(o.arg[1], o.arg[2], o.arg[3], o.arg[4]) = {}

\* C24: a Window never holds both a default panel and user panels: panel()
\* called after default_panel was accessed raises WindowError, and
\* default_panel accessed after panel() registered a panel raises WindowError.
PanelsMutuallyExclusive ==
    [][/\ (PanelCallOf(outcome') /\ dPanel # <<>>) => outcome'.err = "WindowError"
       /\ (outcome'.op = "default_panel" /\ uPanels # <<>>) => outcome'.err = "WindowError"
       /\ ~(uPanels' # <<>> /\ dPanel' # <<>> /\ outcome'.err = NoError)]_vars

\* the rect a panel() call asks for
Asked(o) == Rect(0, o.arg[1], o.arg[2], o.arg[3], o.arg[4])

\* C25: on a Window without a default panel, panel(l, t, w, h) raises
\* WindowError and registers nothing when the rect is not contained in the
\* window's bounds or intersects a registered user panel, and registers the
\* panel otherwise; the registered panels lie within the bounds and are
\* pairwise non-intersecting.
PanelChecksRect ==
    [][(PanelCallOf(outcome') /\ dPanel = <<>>) =>
          IF \/ ~Contains(WindowRect.rect, Asked(outcome'))
             \/ \E i \in 1..Len(uPanels) : Intersects(Asked(outcome'), uPanels[i])
          THEN outcome'.err = "WindowError" /\ uPanels' = uPanels
          ELSE outcome'.err = NoError /\ uPanels' = Append(uPanels, Asked(outcome'))]_vars

\* C39: a panel() call or default_panel access that raises WindowError
\* leaves the user panels and the default panel as they were
WindowErrorKeepsPanels ==
    [][(outcome'.op \in {"panel", "default_panel"} /\ outcome'.err = "WindowError") =>
          (uPanels' = uPanels /\ dPanel' = dPanel)]_vars

\* no call of the Window has raised WindowError
NoWindowError == outcome.err # "WindowError"

-----------------------------------------------------------------------------
(* SpecIntersect: Rect.intersects asked of pairs of rects of positive      *)
(* width and height, in both orders.                                       *)

MaxCorner == 2
MaxSide == 2

RectSamples ==
    {Rect(0, l, t, w, h) : l \in 0..MaxCorner, t \in 0..MaxCorner,
                           w \in 1..MaxSide, h \in 1..MaxSide}

\* hRects[i].intersects(hRects[j])
RectIntersects(i, j) ==
    /\ outcome' = WindowOutcome("intersects", <<hRects[i], hRects[j]>>, NoError,
                                Intersects(hRects[i], hRects[j]), {})
    /\ UNCHANGED <<hostVars, line, panelVars, windowVars>>

InitIntersect ==
    /\ InitPanel
    /\ pStyle = DefaultStyle
    /\ line = ClassLine
    /\ wBounds = Rect(0, 0, 0, 1, 1)
    /\ wValid = <<>>
    /\ hRects \in {<<a, b>> : a \in RectSamples, b \in RectSamples}
    /\ wDrawn = {}
    /\ InitHost
    /\ outcome = Outcome("Rect", NoError, None)

NextIntersect == \E i \in 1..2, j \in 1..2 : RectIntersects(i, j)

SpecIntersect == InitIntersect /\ [][NextIntersect]_vars

\* C26: Rect.intersects is symmetric and tests open-interval overlap: for
\* rects of positive width and height a.intersects(b) equals b.intersects(a)
\* and is true exactly when the two rects share a region of positive area
\* (a cell); rects that only touch along an edge or at a corner do not
\* intersect.
IntersectsSymmetricOpen ==
    outcome.op = "intersects" =>
        /\ outcome.ret = Intersects(outcome.arg[2], outcome.arg[1])
        /\ outcome.ret = (Cells(outcome.arg[1]) \cap Cells(outcome.arg[2]) # {})
        /\ (\/ Right(outcome.arg[1]) = outcome.arg[2].left
            \/ Bottom(outcome.arg[1]) = outcome.arg[2].top) => ~outcome.ret

\* asked of a rect and its right-hand neighbour on the same rows, and of two
\* rects that meet at a corner
IntersectsSymmetricOpenWitness ==
    /\ outcome.op = "intersects"
    /\ ~outcome.ret
    /\ \/ /\ Right(outcome.arg[1]) = outcome.arg[2].left
          /\ outcome.arg[1].top = outcome.arg[2].top
          /\ outcome.arg[1].height = outcome.arg[2].height
       \/ /\ Right(outcome.arg[2]) = outcome.arg[1].left
          /\ Bottom(outcome.arg[2]) = outcome.arg[1].top

-----------------------------------------------------------------------------
(* SpecPan: a cursor on the one row of a panel, moved and edited, and      *)
(* asked by pan() for the part of the row that a display of some width     *)
(* shows.                                                                  *)

MaxPanRow == 5
MaxPanWidth == 6

PanText == <<"0", "1", "2", "3", "4">>
PanRows == {SubSeq(PanText, 1, n) : n \in 0..MaxPanRow}
PanWidths == 1..MaxPanWidth

CursorPan(display_length) ==
    /\ UNCHANGED <<hostVars, line, panelVars, windowVars>>
    /\ IF ~ReadOk
       THEN outcome' = WindowOutcome("pan", display_length, "IndexError", None, {})
       ELSE outcome' = WindowOutcome("pan", display_length, NoError,
                                     Pan(Current, cIndex, display_length), {})

\* Panel(0, 0, MaxLineLen, 1), its row written with writeln, and the cursor
\* placed at any index of the row's data
InitPan ==
    /\ pRect = Rect(1, 0, 0, MaxLineLen, 1)
    /\ pLines \in {<<DefaultLine(MaxLineLen, DefaultStyle, d).ln>> : d \in PanRows}
    /\ cMaxline = 0
    /\ pStyle = DefaultStyle
    /\ pAvailable = EmptyCount(pLines)
    /\ cLine = 0
    /\ cIndex \in 0..Len(Current)
    /\ line = ClassLine
    /\ wBounds = Rect(0, 0, 0, 1, 1)
    /\ wValid = <<>>
    /\ hRects = <<>>
    /\ wDrawn = {}
    /\ InitHost
    /\ outcome = Outcome("Cursor", NoError, None)

NextPan ==
    \/ \E w \in PanWidths : CursorPan(w)
    \/ \E v \in InsertValues : InsertFits(v, MaxPanRow) /\ CursorInsert(v)
    \/ \E n \in 1..2 : CursorBackspace(n)
    \/ \E n \in 1..MaxPanRow : CursorLeft(n)
    \/ \E n \in 1..MaxPanRow : CursorRight(n)

SpecPan == InitPan /\ [][NextPan]_vars

\* pan(width) has just returned
Panned == outcome.op = "pan" /\ outcome.err = NoError

\* C27: for every row data, every in-range index and every width >= 1, the
\* slice pan(width) returns is data[start : start + width] for a start with
\* start <= index <= start + width - 1, and when index >= width - 1 the
\* cursor is at the last visible column: index = start + width - 1.
PanKeepsCursorVisible ==
    Panned =>
        \E start \in 0..Len(Current) :
            /\ outcome.ret = Slice(Current, start, start + outcome.arg)
            /\ start <= cIndex
            /\ cIndex <= start + outcome.arg - 1
            /\ cIndex >= outcome.arg - 1 => cIndex = start + outcome.arg - 1

\* the row does not fit, the cursor is past the display's width and inside
\* the data: the slice starts after the first character
PanKeepsCursorVisibleWitness ==
    /\ Panned
    /\ outcome.arg = 3
    /\ Current = PanText
    /\ cIndex = 3
    /\ outcome.ret = <<"1", "2", "3">>

\* C28 as stated: pan(width) returns the row's data unmodified whenever
\* len(data) <= width, for every index, and a slice of exactly width
\* characters whenever the data does not fit.
PanWholeOrFullWidth ==
    Panned =>
        IF Len(Current) <= outcome.arg
        THEN outcome.ret = Current
        ELSE Len(outcome.ret) = outcome.arg

\* C28 amended: pan(width) returns the row's data unmodified whenever
\* len(data) < width, and whenever len(data) = width with the cursor before
\* the end of the data; with len(data) >= width and the cursor at the end of
\* the data it returns the last width - 1 characters; otherwise it returns a
\* slice of exactly width characters.
PanWholeOrSlice ==
    Panned =>
        IF Len(Current) < outcome.arg \/ (Len(Current) = outcome.arg /\ cIndex < Len(Current))
        THEN outcome.ret = Current
        ELSE IF cIndex = Len(Current)
        THEN outcome.ret = SliceFrom(Current, Len(Current) - (outcome.arg - 1))
        ELSE Len(outcome.ret) = outcome.arg

\* the data is exactly as long as the display and the cursor is at its end
PanWholeOrSliceWitness ==
    /\ Panned
    /\ outcome.arg = 5
    /\ Current = PanText
    /\ cIndex = 5
    /\ outcome.ret = <<"1", "2", "3", "4">>

-----------------------------------------------------------------------------
(* SpecRows: a panel of three rows whose rows are written, inserted and    *)
(* deleted, whose default style is replaced and which the drawing code     *)
(* repaints.                                                               *)

RowCount == 3

RowNumbers == 0..(RowCount - 1)
RowTexts == RowValues \cup InsertValues

\* the values insertln is given: the empty string and a text no writeln writes
InsertedTexts == {<<>>} \cup InsertValues

\* Panel(0, 0, MaxWidth, RowCount, default_style=style) under a window of the
\* same height
InitRows ==
    /\ pStyle \in PanelStyles
    /\ pRect = Rect(1, 0, 0, MaxWidth, RowCount)
    /\ pLines = Copies(DefaultLine(MaxWidth, pStyle, <<>>).ln, RowCount)
    /\ pAvailable = RowCount
    /\ cIndex = 0
    /\ cLine = 0
    /\ cMaxline = RowCount - 1
    /\ line = ClassLine
    /\ wBounds = Rect(0, 0, 0, RowCount, RowCount)
    /\ wValid = <<>>
    /\ hRects = <<>>
    /\ wDrawn = {}
    /\ InitHost
    /\ outcome = Outcome("Panel", NoError, None)

NextRows ==
    \/ \E i \in RowNumbers, v \in RowValues : PanelWriteln(i, v)
    \/ \E i \in RowNumbers, v \in InsertedTexts : PanelInsertln(i, v)
    \/ \E i \in RowNumbers : PanelDeleteln(i)
    \/ \E style \in PanelStyles : PanelSetDefaultStyle(style)
    \/ UnsafeDraw

SpecRows == InitRows /\ [][NextRows]_vars

\* the row after is the row before, moved: the same but for its dirty flag
Moved(before, after) == [after EXCEPT !.dirty = before.dirty] = before

\* rows first .. last (1-based) are dirty
DirtyFrom(lines, first) == \A k \in first..Len(lines) : lines[k].dirty

\* C29: insertln(i, value) with 0 <= i < height leaves rows 0 .. i-1
\* unchanged, puts value in row i, moves the old rows i .. height-2 down by
\* one, loses the old last row, keeps the row count, and leaves every row
\* from i onward dirty.
InsertlnShiftsDown ==
    [][outcome'.op = "insertln" => \A i \in RowNumbers, v \in InsertedTexts :
          (i < pRect.height /\ PanelInsertln(i, v)) =>
              /\ Len(pLines') = Len(pLines)
              /\ Len(pLines') = pRect.height
              /\ \A k \in 1..i : pLines'[k] = pLines[k]
              /\ pLines'[i + 1].data = v
              /\ \A k \in (i + 1)..(Len(pLines) - 1) : Moved(pLines[k], pLines'[k + 1])
              /\ DirtyFrom(pLines', i + 1)]_vars

\* insertln(1, "b") into a repainted panel: the clean row 0 stays as it was,
\* the old row 1 is now row 2 and dirty
InsertlnShiftsDownWitness ==
    /\ outcome.op = "insertln"
    /\ outcome.err = NoError
    /\ ~pLines[1].dirty
    /\ pLines[1].data = <<"a">>
    /\ pLines[2].data = <<"b">>
    /\ pLines[3].data = <<"a">>
    /\ pLines[2].dirty /\ pLines[3].dirty

\* C30: deleteln(i) with 0 <= i < height leaves rows 0 .. i-1 unchanged,
\* moves the old rows i+1 .. height-1 up by one, ends with an empty row in the
\* panel's current default style, keeps the row count, and leaves every row
\* from i onward dirty.
DeletelnShiftsUp ==
    [][outcome'.op = "deleteln" => \A i \in RowNumbers :
          (i < pRect.height /\ PanelDeleteln(i)) =>
              /\ Len(pLines') = Len(pLines)
              /\ Len(pLines') = pRect.height
              /\ \A k \in 1..i : pLines'[k] = pLines[k]
              /\ \A k \in (i + 2)..Len(pLines) : Moved(pLines[k], pLines'[k - 1])
              /\ pLines'[Len(pLines')] = DefaultLine(pRect.width, pStyle, <<>>).ln
              /\ pLines'[Len(pLines')].data = <<>>
              /\ pLines'[Len(pLines')].style = pStyle
              /\ DirtyFrom(pLines', i + 1)]_vars

\* deleteln(1) in a repainted panel whose default style was replaced: the
\* clean row 0 stays, the old row 2 is now row 1 and dirty, the last row is
\* empty
DeletelnShiftsUpWitness ==
    /\ outcome.op = "deleteln"
    /\ outcome.err = NoError
    /\ pStyle # DefaultStyle
    /\ ~pLines[1].dirty
    /\ pLines[1].data = <<"a">>
    /\ pLines[2].data = <<"b">>
    /\ pLines[2].dirty
    /\ pLines[3].data = <<>>
    /\ pLines[3].style = pStyle

-----------------------------------------------------------------------------
(* SpecShift: a panel of two rows whose rows are written, inserted and     *)
(* shifted by amounts up to one more than its height.                      *)

MaxShift == 3

ShiftHeight == 2
ShiftRows == 0..(ShiftHeight - 1)
ShiftBy == (-1)..MaxShift

\* Panel(0, 0, MaxWidth, ShiftHeight)
InitShift ==
    /\ pStyle = DefaultStyle
    /\ pRect = Rect(1, 0, 0, MaxWidth, ShiftHeight)
    /\ pLines = Copies(DefaultLine(MaxWidth, pStyle, <<>>).ln, ShiftHeight)
    /\ pAvailable = ShiftHeight
    /\ cIndex = 0
    /\ cLine = 0
    /\ cMaxline = ShiftHeight - 1
    /\ line = ClassLine
    /\ wBounds = Rect(0, 0, 0, 1, 1)
    /\ wValid = <<>>
    /\ hRects = <<>>
    /\ wDrawn = {}
    /\ InitHost
    /\ outcome = Outcome("Panel", NoError, None)

NextShift ==
    \/ \E i \in ShiftRows, v \in RowTexts : PanelWriteln(i, v)
    \/ \E i \in ShiftRows, v \in RowTexts : PanelInsertln(i, v)
    \/ \E n \in ShiftBy : PanelShiftUp(n)
    \/ \E n \in ShiftBy : PanelShiftDown(n)

SpecShift == InitShift /\ [][NextShift]_vars

\* the data of the 0-based row i
RowData(lines, i) == lines[i + 1].data

\* C31: for every n > 0, after shift_up(n) row i (0 <= i < height) holds the
\* data of old row i+n when i+n < height and the empty string otherwise;
\* after shift_down(n) row i holds the data of old row i-n when i-n >= 0 and
\* the empty string otherwise; with n <= 0 both raise ValueError and change
\* nothing.
ShiftMovesRowData ==
    [][\A n \in ShiftBy :
          /\ (n > 0 /\ PanelShiftUp(n)) =>
                \A i \in 0..(pRect.height - 1) :
                    RowData(pLines', i) = IF i + n < pRect.height THEN RowData(pLines, i + n)
                                                                  ELSE <<>>
          /\ (n > 0 /\ PanelShiftDown(n)) =>
                \A i \in 0..(pRect.height - 1) :
                    RowData(pLines', i) = IF i - n >= 0 THEN RowData(pLines, i - n) ELSE <<>>
          /\ (n <= 0 /\ (PanelShiftUp(n) \/ PanelShiftDown(n))) =>
                outcome'.err = "ValueError" /\ UNCHANGED panelVars]_vars

-----------------------------------------------------------------------------
(* SpecInsert: a cursor over the rows of a panel that inserts strings of   *)
(* zero, one and two characters, while the rows are also written through   *)
(* the panel.                                                              *)

MaxInsertRow == 4

InsertTexts == {<<>>, <<"b">>, <<"b", "c">>}

NextInsert ==
    \/ \E v \in InsertTexts : InsertFits(v, MaxInsertRow) /\ CursorInsert(v)
    \/ CursorLeft(1)
    \/ CursorRight(1)
    \/ CursorUp(1)
    \/ CursorDown(1)
    \/ \E i \in DrawRows, v \in RowValues : PanelWriteln(i, v)

SpecInsert == InitCursor /\ [][NextInsert]_vars

\* C32: insert(s) changes the data of the row under the cursor from d to
\* d[:index] + s + d[index:], increases index by len(s), and changes neither
\* cursor.line nor any other row.
InsertSplices ==
    [][\A v \in InsertTexts :
          (CursorInsert(v) /\ outcome'.err = NoError) =>
              /\ pLines'[cLine + 1].data =
                    SubSeq(Current, 1, Min(cIndex, Len(Current))) \o v
                    \o SubSeq(Current, Min(cIndex, Len(Current)) + 1, Len(Current))
              /\ cIndex' = cIndex + Len(v)
              /\ cLine' = cLine
              /\ Len(pLines') = Len(pLines)
              /\ \A k \in 1..Len(pLines) : k # cLine + 1 => pLines'[k] = pLines[k]]_vars

\* two characters were inserted inside the second row's text "ac"; the first
\* row holds text of its own
InsertSplicesWitness ==
    /\ outcome.op = "insert"
    /\ outcome.err = NoError
    /\ cLine = 1
    /\ Current = <<"a", "b", "c", "c">>
    /\ cIndex = 3
    /\ pLines[1].data = <<"a">>

-----------------------------------------------------------------------------
(* SpecColor: the attribute bits of the one row of a panel under colorln   *)
(* and under plain assignments to the row's attributes.  The bits keep     *)
(* their order and are moved down: one curses bit (BOLD) sits below the    *)
(* six colour bits of the library, and one more bit sits above them.       *)

\* Python's a & b, a | b and a ^ b for a, b >= 0
RECURSIVE BitAnd(_, _)
BitAnd(a, b) ==
    IF a = 0 \/ b = 0 THEN 0
    ELSE (a % 2) * (b % 2) + 2 * BitAnd(a \div 2, b \div 2)

BitOr(a, b) == a + b - BitAnd(a, b)
BitXor(a, b) == a + b - 2 * BitAnd(a, b)

\* _ATTRIBUTE_BITS_START, the first bit above the curses attributes
AttributeBitsStart == 2
CursesAttributeBitmask == AttributeBitsStart - 1

\* AttributeBit: a curses attribute, and the colours in the order in which
\* _new_attribute_bit hands out their bits
BOLD == 1
RED == AttributeBitsStart
GREEN == 2 * RED
YELLOW == 2 * GREEN
BLUE == 2 * YELLOW
MAGENTA == 2 * BLUE
CYAN == 2 * MAGENTA

\* a bit above every bit of the namespace
HighBit == 2 * CYAN

ColorAttributesBitmask == BitXor(2 * CYAN - 1, CursesAttributeBitmask)

ColorBits == {RED, GREEN, BLUE, MAGENTA, CYAN}

\* _backend.set_color_bit(attributes, color_bit): [ok, value]
SetColorBit(attributes, color_bit) ==
    IF color_bit \notin ColorBits
    THEN [ok |-> FALSE, value |-> attributes]
    ELSE [ok |-> TRUE,
          value |-> BitOr(attributes - BitAnd(attributes, ColorAttributesBitmask), color_bit)]

\* Panel.colorln(index, color_bit)
PanelColorln(index, color_bit) ==
    /\ UNCHANGED <<hostVars, line, pRect, pStyle, pAvailable, cIndex, cLine, cMaxline, windowVars>>
    /\ IF ~IndexOk(pLines, index)
       THEN /\ outcome' = Outcome("colorln", "IndexError", None)
            /\ UNCHANGED pLines
       ELSE \E set \in {SetColorBit(pLines[Pos(pLines, index)].style.attributes, color_bit)} :
            IF ~set.ok
            THEN /\ outcome' = Outcome("colorln", "ValueError", None)
                 /\ UNCHANGED pLines
            ELSE \E r \in {LineSetAttributes(pLines[Pos(pLines, index)], set.value)} :
                 /\ pLines' = [pLines EXCEPT ![Pos(pLines, index)] = r.ln]
                 /\ outcome' = Outcome("colorln", IF r.ok THEN NoError ELSE "ValueError", None)

\* panel[index].attributes = value
RowSetAttributes(index, value) ==
    /\ UNCHANGED <<hostVars, line, pRect, pStyle, pAvailable, cIndex, cLine, cMaxline, windowVars>>
    /\ IF ~IndexOk(pLines, index)
       THEN /\ outcome' = Outcome("Line.attributes", "IndexError", None)
            /\ UNCHANGED pLines
       ELSE \E r \in {LineSetAttributes(pLines[Pos(pLines, index)], value)} :
            /\ pLines' = [pLines EXCEPT ![Pos(pLines, index)] = r.ln]
            /\ outcome' = Outcome("Line.attributes", IF r.ok THEN NoError ELSE "ValueError", None)

\* the colours of the AttributeBit namespace
NamespaceColors == {RED, GREEN, YELLOW, BLUE, MAGENTA, CYAN}

\* attribute values: every combination of the eight bits
AttributeSamples == 0..(2 * HighBit - 1)

\* values handed to colorln: the colours, no bit, a non-colour bit, two bits
ColorArguments == NamespaceColors \cup {0, BOLD, HighBit, RED + GREEN, RED + BOLD}

\* Panel(0, 0, MaxWidth, 1, attributes=a)
InitColor ==
    /\ \E a \in {0, BOLD} :
          /\ pStyle = StyleFromKeywords(<<" ">>, None, <<0, 0>>, a)
          /\ pLines = <<DefaultLine(MaxWidth, pStyle, <<>>).ln>>
    /\ pRect = Rect(1, 0, 0, MaxWidth, 1)
    /\ pAvailable = 1
    /\ cIndex = 0
    /\ cLine = 0
    /\ cMaxline = 0
    /\ line = ClassLine
    /\ wBounds = Rect(0, 0, 0, 1, 1)
    /\ wValid = <<>>
    /\ hRects = <<>>
    /\ wDrawn = {}
    /\ InitHost
    /\ outcome = Outcome("Panel", NoError, None)

NextColor ==
    \/ \E c \in ColorArguments : PanelColorln(0, c)
    \/ \E v \in AttributeSamples : RowSetAttributes(0, v)

SpecColor == InitColor /\ [][NextColor]_vars

\* the attributes of the panel's row
RowAttributes(lines) == lines[1].style.attributes

\* C33: for every colour c of the AttributeBit namespace (RED, GREEN, YELLOW,
\* BLUE, MAGENTA, CYAN) colorln(i, c) leaves row i's attributes with bit c
\* set, every other colour bit clear and every non-colour bit unchanged; a
\* color_bit that is not one of these colours raises ValueError and leaves
\* the attributes unchanged.
ColorlnSetsOneColor ==
    [][\A c \in ColorArguments :
          PanelColorln(0, c) =>
             IF c \in NamespaceColors
             THEN /\ outcome'.err = NoError
                  /\ BitAnd(RowAttributes(pLines'), c) = c
                  /\ \A o \in NamespaceColors \ {c} : BitAnd(RowAttributes(pLines'), o) = 0
                  /\ \A b \in {BOLD, HighBit} :
                        BitAnd(RowAttributes(pLines'), b) = BitAnd(RowAttributes(pLines), b)
             ELSE /\ outcome'.err = "ValueError"
                  /\ RowAttributes(pLines') = RowAttributes(pLines)]_vars

-----------------------------------------------------------------------------
(* SpecResize: a panel of either default style whose rect is assigned      *)
(* again and again, with valid and invalid values, between writes, inserts *)
(* and shifts of its rows, changes of its default style and moves of its   *)
(* cursor.                                                                 *)

NextResize ==
    \/ \E l \in RectLefts, w \in RectWidths, h \in RectHeights : PanelSetRect(l, 0, w, h)
    \/ \E i \in DrawRows, v \in RowValues : PanelWriteln(i, v)
    \/ \E i \in DrawRows, v \in InsertValues : PanelInsertln(i, v)
    \/ \E n \in ShiftSteps : PanelShiftUp(n)
    \/ \E style \in PanelStyles : PanelSetDefaultStyle(style)
    \/ CursorDown(1)
    \/ CursorUp(1)

SpecResize == Init /\ [][NextResize]_vars

\* C34: a successful rect assignment keeps the first min(old height, new
\* height) rows in order with their data and style unchanged, drops the rows
\* beyond the new height from the tail, appends empty rows with the panel's
\* current default style when the height grows, sets every row's length to
\* the new width, recomputes available, and sets cursor.maxline to
\* height - 1 with cursor.line clamped to it.  The old height is the number
\* of rows the panel holds.
ResizeKeepsRows ==
    [][(outcome'.op = "Panel.rect" /\ outcome'.err = NoError) =>
          /\ PanelSetRect(pRect'.left, pRect'.top, pRect'.width, pRect'.height)
          /\ Len(pLines') = pRect'.height
          /\ \A k \in 1..Min(Len(pLines), pRect'.height) :
                /\ pLines'[k].data = pLines[k].data
                /\ pLines'[k].style = pLines[k].style
          /\ \A k \in (Len(pLines) + 1)..pRect'.height :
                /\ pLines'[k].data = <<>>
                /\ pLines'[k].style = pStyle
          /\ \A k \in 1..pRect'.height : pLines'[k].length = pRect'.width
          /\ pAvailable' = EmptyCount(pLines')
          /\ cMaxline' = pRect'.height - 1
          /\ cLine' = Min(cLine, pRect'.height - 1)]_vars

\* a panel whose one row kept the style it had when set_default_style was
\* rejected has grown: the row kept its data and style, the appended row has
\* the current default style
ResizeKeepsRowsWitness ==
    /\ outcome.op = "Panel.rect"
    /\ outcome.err = NoError
    /\ Len(pLines) = 2
    /\ pLines[1].data = <<"a">>
    /\ pLines[1].style = DefaultStyle
    /\ pStyle # DefaultStyle
    /\ pLines[2].style = pStyle
    /\ pLines[2].data = <<>>
    /\ pAvailable = 1

\* C37: if an assignment to a panel's rect raises an error for any reason,
\* including a new width that the rows' fixed padding cannot fit, then the
\* panel's rect, its rows (count, lengths, data), cursor.maxline, cursor.line
\* and available are all exactly as they were before the call.
FailedResizeChangesNothing ==
    [][(outcome'.op = "Panel.rect" /\ outcome'.err # NoError) =>
          /\ pRect' = pRect
          /\ pLines' = pLines
          /\ cMaxline' = cMaxline
          /\ cLine' = cLine
          /\ pAvailable' = pAvailable]_vars

-----------------------------------------------------------------------------
(* Lines whose two pads are each fixed or variable, with three distinct    *)
(* fill characters: "<" and ">" for the pads, "." for the plain fill.      *)

\* the longest line with mixed pads
MaxFillLen == 4

FillLengths == 1..MaxFillLen

FillPads == (-1)..1

FillDatas == {SubSeq(Letters, 1, n) : n \in 0..3}

\* Line(length, data=data, fill=".", padding=(l, r), padding_fills=("<", ">"))
InitFill ==
    /\ \E length \in FillLengths, data \in FillDatas, l \in FillPads, r \in FillPads :
          \E made \in {LineInit(length,
                                StyleFromKeywords(<<".">>, <<<<"<">>, <<">">>>>,
                                                  <<l, r>>, 0),
                                data)} :
             made.ok /\ line = made.ln
    /\ outcome = Outcome("Line", NoError, None)
    /\ pRect = Rect(0, -1, -1, -1, -1)
    /\ pLines = <<>>
    /\ pAvailable = -1
    /\ pStyle = DefaultStyle
    /\ cIndex = 0
    /\ cLine = 0
    /\ cMaxline = 0
    /\ wBounds = Rect(0, 0, 0, 1, 1)
    /\ wValid = <<>>
    /\ hRects = <<>>
    /\ wDrawn = {}
    /\ InitHost

NextFill ==
    \/ \E l \in FillPads, r \in FillPads : LineAssignPadding(<<l, r>>)
    \/ \E length \in FillLengths : LineAssignLength(length)
    \/ \E data \in FillDatas : LineAssignData(data)

SpecFill == InitFill /\ [][NextFill]_vars

\* the fixed pad of one side: empty when that side is variable
FixedPad(side) ==
    Repeat(line.style.padding.fills[side], line.style.padding.values[side])

\* the display budget: length minus the fixed pads
Budget == line.length - Len(FixedPad(1)) - Len(FixedPad(2))

\* C35: with data shorter than the budget, a single variable side takes the
\* whole leftover in its own padding fill and no plain fill appears, two
\* fixed sides leave the leftover to the plain fill right after the data;
\* data at least as long as the budget is cut to its first budget characters
\* between the fixed pads, the variable pads being empty
LeftoverGoesToOneSide ==
    IF Len(line.data) >= Budget
    THEN line.display = FixedPad(1) \o SliceTo(line.data, Budget) \o FixedPad(2)
    ELSE /\ (line.style.padding.values[1] >= 0 /\ line.style.padding.values[2] < 0) =>
               line.display = FixedPad(1) \o line.data
                   \o Repeat(line.style.padding.fills[2], Budget - Len(line.data))
         /\ (line.style.padding.values[1] < 0 /\ line.style.padding.values[2] >= 0) =>
               line.display = Repeat(line.style.padding.fills[1], Budget - Len(line.data))
                   \o line.data \o FixedPad(2)
         /\ (line.style.padding.values[1] >= 0 /\ line.style.padding.values[2] >= 0) =>
               line.display = FixedPad(1) \o line.data
                   \o Repeat(line.style.fill, Budget - Len(line.data)) \o FixedPad(2)

\* "a" in a line of 4 with a fixed left pad and a variable right pad
LeftoverGoesToOneSideWitness ==
    /\ outcome.op = "Line.padding"
    /\ outcome.err = NoError
    /\ line.length = 4
    /\ line.data = <<"a">>
    /\ line.style.padding.values = <<1, -1>>
    /\ line.display = <<"<", "a", ">", ">">>

-----------------------------------------------------------------------------
(* SpecScreen: inside a `with tuindow.init(...)` block on a terminal of    *)
(* MaxScreen x MaxScreen cells, one panel of a single column is edited and *)
(* resized, its cursor is moved and made active or not, and the panel is   *)
(* drawn.                                                                  *)

\* the state in the body of the block: init has sized the window to the
\* terminal, nothing has been written yet and no cursor is active
InitScreen ==
    /\ InitPanel
    /\ pStyle = DefaultStyle
    /\ line = ClassLine
    /\ wBounds = Rect(0, 0, 0, MaxScreen, MaxScreen)
    /\ wValid = <<>>
    /\ hRects = <<>>
    /\ wDrawn = {}
    /\ instance = "Instance"
    /\ inBlock = TRUE
    /\ screen = <<1, 1>>
    /\ uPanels = <<>>
    /\ dPanel = <<>>
    /\ pooling = FALSE
    /\ shown = <<>>
    /\ active = FALSE
    /\ InitKeys
    /\ outcome = WindowOutcome("init", <<MaxScreen, MaxScreen>>, NoError, None, {})

NextScreen ==
    \/ \E h \in 1..MaxHeight : PanelSetRect(0, 0, 1, h)
    \/ \E i \in DrawRows, v \in RowValues : PanelWriteln(i, v)
    \/ \E v \in InsertValues : InsertFits(v, MaxData) /\ CursorInsert(v)
    \/ CursorLeft(1)
    \/ CursorDown(1)
    \/ CursorUp(1)
    \/ SetActiveCursor
    \/ ClearActiveCursor
    \/ ApiDraw

SpecScreen == InitScreen /\ [][NextScreen]_vars

\* the text last written where row i of the panel starts is the row's display
ShowsDisplay(i) ==
    /\ <<pRect.left, pRect.top + i - 1>> \in DOMAIN shown
    /\ shown[<<pRect.left, pRect.top + i - 1>>] = pLines[i].display

\* C38: after every completed draw, each row of the drawn panel other than
\* the row under the active cursor has its current display as the text last
\* written at its position
DrawnRowsShowDisplay ==
    (outcome.op = "_unsafe_draw" /\ outcome.err = NoError) =>
        \A i \in 1..Len(pLines) : (active /\ i = cLine + 1) \/ ShowsDisplay(i)

-----------------------------------------------------------------------------
(* SpecKeys: the backend Instance between the terminal, which produces     *)
(* keys and resize events, and one consumer, which obtains a generator     *)
(* from Instance.keys, advances it, and calls cache_pending_keys (as       *)
(* api.draw does, api.py:451) at any point in between.                     *)

\* keys the terminal produces
MaxKeys == 3

\* resize events the terminal produces
MaxResizes == 1

\* curses.KEY_RESIZE, among keys numbered from 1
KeyResize == 0

\* getch() returned -1: no input is pending
NoInput == -1

\* the second loop of Instance.keys up to its next yield: getch() until a key
\* is read or nothing is pending, the resize callback called on each resize
RECURSIVE ReadKey(_, _)
ReadKey(input, calls) ==
    IF input = <<>> THEN [key |-> NoInput, input |-> input, calls |-> calls]
    ELSE IF Head(input) = KeyResize THEN ReadKey(Tail(input), calls + 1)
    ELSE [key |-> Head(input), input |-> Tail(input), calls |-> calls]

\* every key the second loop yields until getch() returns -1
RECURSIVE ReadKeys(_)
ReadKeys(input) ==
    IF input = <<>> THEN <<>>
    ELSE IF Head(input) = KeyResize THEN ReadKeys(Tail(input))
    ELSE <<Head(input)>> \o ReadKeys(Tail(input))

\* the resize events among the pending input
Resizes(input) == Cardinality({i \in 1..Len(input) : input[i] = KeyResize})

\* the terminal produces the next key
TerminalKey ==
    /\ typed < MaxKeys
    /\ typed' = typed + 1
    /\ stdscr' = Append(stdscr, typed + 1)
    /\ outcome' = Outcome("key", NoError, typed + 1)
    /\ UNCHANGED <<apiVars, curseVars, termVars, cachedKeys, gen, yielded, sent, called,
                   line, panelVars, windowVars>>

\* the terminal is resized
TerminalResize ==
    /\ sent < MaxResizes
    /\ sent' = sent + 1
    /\ stdscr' = Append(stdscr, KeyResize)
    /\ outcome' = Outcome("KEY_RESIZE", NoError, None)
    /\ UNCHANGED <<apiVars, curseVars, termVars, cachedKeys, gen, yielded, typed, called,
                   line, panelVars, windowVars>>

\* Instance.keys: a new generator, which has run no code yet
InstanceKeys ==
    /\ gen' = "start"
    /\ outcome' = Outcome("Instance.keys", NoError, None)
    /\ UNCHANGED <<apiVars, curseVars, termVars, stdscr, cachedKeys, yielded, typed, sent,
                   called, line, panelVars, windowVars>>

\* next() on the generator: it runs to its next yield, in the first loop
\* while the cache holds keys and in the second loop from then on, or ends
GeneratorNext ==
    /\ gen \in {"start", "cached", "reading"}
    /\ UNCHANGED <<apiVars, curseVars, termVars, typed, sent, line, panelVars, windowVars>>
    /\ IF gen # "reading" /\ cachedKeys # <<>>
       THEN /\ gen' = "cached"
            /\ cachedKeys' = Tail(cachedKeys)
            /\ yielded' = Append(yielded, Head(cachedKeys))
            /\ outcome' = Outcome("next", NoError, Head(cachedKeys))
            /\ UNCHANGED <<stdscr, called>>
       ELSE \E got \in {ReadKey(stdscr, called)} :
            /\ stdscr' = got.input
            /\ called' = got.calls
            /\ UNCHANGED cachedKeys
            /\ IF got.key = NoInput
               THEN /\ gen' = "done"
                    /\ outcome' = Outcome("next", "StopIteration", None)
                    /\ UNCHANGED yielded
               ELSE /\ gen' = "reading"
                    /\ yielded' = Append(yielded, got.key)
                    /\ outcome' = Outcome("next", NoError, got.key)

\* Instance.cache_pending_keys(): with _cached_keys set to None a generator
\* of its own runs the second loop to its end, and its keys are put behind
\* those the cache held
CachePendingKeys ==
    /\ cachedKeys' = cachedKeys \o ReadKeys(stdscr)
    /\ stdscr' = <<>>
    /\ called' = called + Resizes(stdscr)
    /\ outcome' = Outcome("cache_pending_keys", NoError, None)
    /\ UNCHANGED <<apiVars, curseVars, termVars, gen, yielded, typed, sent, line,
                   panelVars, windowVars>>

\* Instance(resize_callback) inside `with`, beside an unused panel
InitInstance ==
    /\ InitPanel
    /\ pStyle = DefaultStyle
    /\ line = ClassLine
    /\ wBounds = Rect(0, 0, 0, 1, 1)
    /\ wValid = <<>>
    /\ hRects = <<>>
    /\ wDrawn = {}
    /\ InitHost
    /\ outcome = Outcome("Instance", NoError, None)

NextKeys ==
    \/ TerminalKey
    \/ TerminalResize
    \/ InstanceKeys
    \/ GeneratorNext
    \/ CachePendingKeys

SpecKeys == InitInstance /\ [][NextKeys]_vars

\* C40: the consumer is handed the keys in the order the terminal produced
\* them, none twice: a key is yielded only after every key produced before
\* it that has been read, so cached keys come before keys read later; no
\* resize event is yielded, no key is lost, and the resize callback has run
\* once for each resize event read
KeysInOrder ==
    /\ \A i \in 1..Len(yielded) : \A j \in 1..Len(yielded) :
          i < j => yielded[i] < yielded[j]
    /\ \A i \in 1..Len(yielded) : \A j \in 1..Len(cachedKeys) :
          yielded[i] < cachedKeys[j]
    /\ \A i \in 1..Len(yielded) : yielded[i] # KeyResize
    /\ Len(yielded) + Len(cachedKeys) + Len(ReadKeys(stdscr)) = typed
    /\ called + Resizes(stdscr) = sent

=============================================================================
